---- MODULE Spec2Model ----
(***************************************************************************)
(* A model of skillian/uniquefile: the Indication buffer and its reader,   *)
(* the Indication pool, the Composite indicator (Indicators), the SQL      *)
(* repository (sqlrepo.Repo) and the scan -> indicate -> persist pipeline  *)
(* (main2).  Each part is exercised by a specification of its own; the     *)
(* variable `scenario` records which part a behaviour exercises.           *)
(***************************************************************************)
EXTENDS Integers, Sequences, FiniteSets, Bags, TLC

\* ------------------------------------------------------------------------
\* Bounds of the model
\* ------------------------------------------------------------------------

\* Entries written to one Indication between two Resets.
MaxWrites == 2

\* Indicate calls on the Composite in one behaviour.
MaxCalls == 2

\* NewIndication calls of the Composite's caller in one behaviour.
MaxNews == 1

\* SetIndications calls on the repository in one behaviour.
MaxSets == 3

\* The indicator goroutines main2 starts (-w).
NWorkers == 2

\* Room in the requests and the results channel; main2 makes both with
\* room for 1024.
ReqCap == 1

ResCap == 1

\* Bytes one Read hands over (io.Copy reads with a buffer of 32 KiB).
BlockSize == 2
MaxRawLen == 3
MaxConvCalls == 2

\* Goroutines that call Indicate on the same Composite, the calls each of
\* them makes, the lanes of the Composite and the blocks of a source.
NCallers == 2
MaxFanCalls == 2
MaxLanes == 3
MaxBlocks == 2

\* ------------------------------------------------------------------------
\* Program constants
\* ------------------------------------------------------------------------

\* binary.MaxVarintLen64
MaxVarintLen64 == 10

VARIABLES
    scenario,   \* "buf" | "raw" | "lib" | "repo" | "pipe" | "leaf" | "tee" | "conv" | "fan":
                \* the part being exercised
    \* -- Indication buffer ------------------------------------------------
    buf,        \* Indication.buf: a sequence of bytes
    rdr,        \* the indicationReader over buf, or NoReader
    written,    \* history: the (key, value) pairs written since the last Reset
    resetDone,  \* history: Reset was called
    \* -- Indication pool and Composite indicator --------------------------
    pool,       \* indicationCache: a bag of *Indication
    held,       \* the caller's *Indication (NilInd: none)
    irs,        \* Indicators.irs: the children, one request channel each
    call,       \* the Indicate call in progress on the Composite
    callRes,    \* history: how the last Indicate call ended
    acquired,   \* history: what the last NewIndication returned
    nCalls,     \* history: Indicate calls begun
    nNews,      \* history: NewIndication calls of the caller
    \* -- repository (sqlrepo.Repo) ----------------------------------------
    resources,      \* table Resource: rows [ResourceID, Uri]
    indications,    \* table Indication: rows [IndicationID, ResourceID, Key, Value]
    nextID,         \* the identity counters of the two tables
    repoOp,         \* history: the last repository call and its result
    lastSet,        \* history: per URI text, the mapping last given to SetIndications
    nSets,          \* history: SetIndications calls
    \* -- pipeline (main2) --------------------------------------------------
    scanners,       \* the reader goroutines: position in their root
    requests,       \* chan indicationRequest: the requests in the buffer
    results,        \* chan indictionResult: the results in the buffer
    closed,         \* which of the two channels main2 has closed
    indWorkers,     \* the indicator goroutines (scanReadSeekClosers)
    pcRepo,         \* the repository goroutine
    pcMain,         \* main2 itself
    ctxErr,         \* ctx.Err() != nil
    hist,           \* history: interrupt, repository failure, panic, counts
    \* -- one Indicate call, read by read -----------------------------------
    leaf,           \* a leaf indicator's Indicate call on one reader
    tee,            \* a Composite's Indicate call: lanes, tee and pipes
    \* -- conversions between URI, text and local path ---------------------
    conv,           \* the value being converted and the calls made on it
    \* -- Indicate calls that share one Composite ---------------------------
    fan             \* the callers, the lane goroutines and each call's pipes

bufVars == <<buf, rdr, written, resetDone>>

libVars == <<pool, held, irs, call, callRes, acquired, nCalls, nNews>>

repoVars == <<resources, indications, nextID, repoOp, lastSet, nSets>>

pipeVars == <<scanners, requests, results, closed, indWorkers, pcRepo, pcMain,
              ctxErr, hist>>

streamVars == <<leaf, tee, conv, fan>>

vars == <<scenario, bufVars, libVars, repoVars, pipeVars, streamVars>>

\* ------------------------------------------------------------------------
\* Helpers
\* ------------------------------------------------------------------------

Min(a, b) == IF a < b THEN a ELSE b

\* s[from+1 .. to] with Go's half-open, zero-based slice bounds s[from:to].
Slice(s, from, to) == SubSeq(s, from + 1, to)

Range(seq) == {seq[i] : i \in 1..Len(seq)}

IsPrefix(p, s) == Len(p) <= Len(s) /\ SubSeq(s, 1, Len(p)) = p

\* ------------------------------------------------------------------------
\* Indication buffer (Indication.Write / Reset / Reader().Next)
\* ------------------------------------------------------------------------

\* binary.PutUvarint: seven bits per byte, least significant group first,
\* the high bit set on every byte but the last.
RECURSIVE PutUvarint(_)
PutUvarint(x) ==
    IF x >= 128 THEN <<(x % 128) + 128>> \o PutUvarint(x \div 128)
    ELSE <<x>>

\* binary.ReadUvarint over indicationReader.ReadByte, from index idx
\* (zero-based), having read i bytes with the value x accumulated so far and
\* the next group weighing mul = 2^(7i).  Result: the value, the new index
\* and the error.
RECURSIVE ReadUvarintFrom(_, _, _, _, _)
ReadUvarintFrom(b, idx, i, x, mul) ==
    IF i >= MaxVarintLen64 THEN [val |-> x, idx |-> idx, err |-> "overflow"]
    ELSE IF idx >= Len(b) THEN
        \* ReadByte returns io.EOF; ReadUvarint hands it on (as
        \* io.ErrUnexpectedEOF when bytes were already read).
        [val |-> x, idx |-> idx, err |-> IF i > 0 THEN "UnexpectedEOF" ELSE "EOF"]
    ELSE LET c == b[idx + 1] IN
        IF c < 128 THEN
            IF i = MaxVarintLen64 - 1 /\ c > 1
            THEN [val |-> x, idx |-> idx + 1, err |-> "overflow"]
            ELSE [val |-> x + c * mul, idx |-> idx + 1, err |-> "nil"]
        ELSE ReadUvarintFrom(b, idx + 1, i + 1, x + (c % 128) * mul, mul * 128)

ReadUvarint(b, idx) == ReadUvarintFrom(b, idx, 0, 0, 1)

\* writeSlice in Indication.Write
writeSlice(b, bs) == b \o PutUvarint(Len(bs)) \o bs

\* A Write that leaves out the length prefix of the key.
IndWriteMissingLen(b, key, value) == b \o key \o PutUvarint(Len(value)) \o value

\* Indication.Write
IndWrite(b, key, value) == writeSlice(writeSlice(b, key), value)

\* Indication.Reset: i.buf = i.buf[:0]
IndReset(b) == <<>>

\* readSlice in indicationReader.Next
readSlice(b, idx) ==
    LET l == ReadUvarint(b, idx) IN
    IF l.err # "nil" THEN [bs |-> <<>>, idx |-> l.idx, err |-> l.err]
    ELSE IF l.idx + l.val > Len(b)
         THEN [bs |-> <<>>, idx |-> l.idx, err |-> "outOfRange"]
         ELSE [bs |-> Slice(b, l.idx, l.idx + l.val),
               idx |-> l.idx + l.val, err |-> "nil"]

\* indicationReader.Next from index idx: the key, the value, the new index
\* and the error.
ReaderNext(b, idx) ==
    IF idx = Len(b)
    THEN [key |-> <<>>, value |-> <<>>, idx |-> idx, err |-> "EOF"]
    ELSE LET k == readSlice(b, idx) IN
         IF k.err # "nil"
         THEN [key |-> <<>>, value |-> <<>>, idx |-> k.idx, err |-> k.err]
         ELSE LET v == readSlice(b, k.idx) IN
              [key |-> k.bs, value |-> v.bs, idx |-> v.idx, err |-> v.err]

\* Every entry of a buffer, as Reader().Next yields them up to the first
\* error (io.EOF at the end of a well-formed buffer).
RECURSIVE EntriesFrom(_, _)
EntriesFrom(b, idx) ==
    LET n == ReaderNext(b, idx) IN
    IF n.err # "nil" THEN <<>>
    ELSE <<<<n.key, n.value>>>> \o EntriesFrom(b, n.idx)

Entries(b) == EntriesFrom(b, 0)

\* ------------------------------------------------------------------------
\* Indication pool (indicationCache, NewIndication, PutIndication)
\* ------------------------------------------------------------------------

\* A *Indication: the nil pointer, or a pointer to an Indication with this buf.
NilInd == [nil |-> TRUE, buf |-> <<>>]

Ptr(b) == [nil |-> FALSE, buf |-> b]

\* indicationCache.New: &Indication{make([]byte, 0, 256)}
PoolNew == Ptr(<<>>)

\* NewIndication: indicationCache.Get() hands out any pooled item, as it was
\* put, or a new one.  The outcomes: the item and the pool left.
NewIndication(p) ==
    {[item |-> x, pool |-> p (-) SetToBag({x})] : x \in BagToSet(p)}
        \cup {[item |-> PoolNew, pool |-> p]}

\* PutIndication: indicationCache.Put(*i); the caller's pointer becomes nil.
PutIndication(p, item) == p (+) SetToBag({item})

\* ------------------------------------------------------------------------
\* Leaf indicators (lengthIndicator, hashAndLengthIndicator)
\* ------------------------------------------------------------------------

\* "length", "crc32", "sha256" as bytes
lengthIndicatorKey == <<108, 101, 110, 103, 116, 104>>

crc32Key == <<99, 114, 99, 51, 50>>

sha256Key == <<115, 104, 97, 50, 53, 54>>

\* crc32.Size and sha256.Size: the bytes of h.Sum
crc32Size == 4

sha256Size == 32

\* The k low bytes of n, most significant first.
RECURSIVE BigEndian(_, _)
BigEndian(n, k) ==
    IF k = 0 THEN <<>> ELSE BigEndian(n \div 256, k - 1) \o <<n % 256>>

\* byteOrder.PutUint64(buf[:], uint64(length)): eight bytes, big endian
PutUint64(n) == BigEndian(n, 8)

RECURSIVE WeightedSum(_, _)
WeightedSum(src, salt) ==
    IF src = <<>> THEN salt
    ELSE (31 * WeightedSum(SubSeq(src, 1, Len(src) - 1), salt)
            + src[Len(src)] + 1) % 251

\* h.Sum(nil) after the source went through h.  The digest function itself
\* is the hash library's; here it is a fixed function of the bytes read
\* with the digest's length.
HashSum(size, src) == [i \in 1..size |-> WeightedSum(src, i + size)]

IndicatorKinds == {"length", "crc32", "sha256"}

\* The entries a leaf indicator writes, in order, having read src to its end.
LeafEntries(kind, src) ==
    IF kind = "length" THEN <<<<lengthIndicatorKey, PutUint64(Len(src))>>>>
    ELSE IF kind = "crc32"
    THEN << <<lengthIndicatorKey, PutUint64(Len(src))>>,
            <<crc32Key, HashSum(crc32Size, src)>> >>
    ELSE << <<lengthIndicatorKey, PutUint64(Len(src))>>,
            <<sha256Key, HashSum(sha256Size, src)>> >>

RECURSIVE WriteAll(_, _)
WriteAll(b, entries) ==
    IF entries = <<>> THEN b
    ELSE WriteAll(IndWrite(b, entries[1][1], entries[1][2]), Tail(entries))

\* lengthIndicator.Indicate / hashAndLengthIndicator.Indicate on the
\* Indication with buffer b: the entries are appended.
LeafIndicate(kind, src, b) == WriteAll(b, LeafEntries(kind, src))

\* ------------------------------------------------------------------------
\* Composite indicator (Indicators)
\* ------------------------------------------------------------------------

\* The merge loop of Indicators.Indicate over one lane's buffer b from index
\* idx.  st: the keys visited, the caller's buffer, the errors aggregated.
RECURSIVE MergeLane(_, _, _)
MergeLane(b, idx, st) ==
    LET n == ReaderNext(b, idx) IN
    IF n.err = "EOF" THEN st
    ELSE IF n.err = "outOfRange" THEN [st EXCEPT !.panic = TRUE]
    ELSE LET st1 == IF n.err # "nil"
                    THEN [st EXCEPT !.errs = Append(@, n.err)] ELSE st
         IN IF n.key \in st1.visited THEN MergeLane(b, n.idx, st1)
            ELSE MergeLane(b, n.idx,
                    [st1 EXCEPT !.visited = @ \cup {n.key},
                                !.out = IndWrite(@, n.key, n.value)])

LaneFailedShadowing(st, err) == [st EXCEPT !.errs = <<err>>]

\* errs = errors.CreateError(req.err, nil, errs, 0): the lane's error joins
\* the errors gathered so far.
LaneFailed(st, err) == [st EXCEPT !.errs = Append(@, err)]

\* for _, req := range reqs { ... }: lanes in index order; a lane that
\* failed adds its error and is skipped.
RECURSIVE MergeLanes(_, _)
MergeLanes(lanes, st) ==
    IF lanes = <<>> THEN st
    ELSE MergeLanes(Tail(lanes),
            IF lanes[1].err # "nil" THEN LaneFailed(st, lanes[1].err)
            ELSE MergeLane(lanes[1].ind.buf, 0, st))

RECURSIVE PutAll(_, _)
PutAll(p, lanes) ==
    IF lanes = <<>> THEN p
    ELSE PutAll(PutIndication(p, lanes[1].ind), Tail(lanes))

\* ------------------------------------------------------------------------
\* Resource URI (URI.String, URI.FromString, URI.FromURL)
\* ------------------------------------------------------------------------

\* Text is a sequence of character codes: ":" "/" "?" "&" "=" "#" ";"
Colon == <<58>>

Slash == <<47>>

QuestionMark == <<63>>

\* FileScheme = "file"
FileScheme == <<102, 105, 108, 101>>

HasPrefix(t, pre) == Len(t) >= Len(pre) /\ SubSeq(t, 1, Len(pre)) = pre

\* strings.Index(t, sep) for a non-empty sep: the zero-based index of its
\* first occurrence, -1 when there is none.
RECURSIVE IndexFrom(_, _, _)
IndexFrom(t, sep, i) ==
    IF i + Len(sep) > Len(t) THEN -1
    ELSE IF SubSeq(t, i + 1, i + Len(sep)) = sep THEN i
    ELSE IndexFrom(t, sep, i + 1)

Index(t, sep) == IndexFrom(t, sep, 0)

\* strings.Cut
Cut(t, sep) ==
    LET i == Index(t, sep) IN
    IF i < 0 THEN [before |-> t, after |-> <<>>, found |-> FALSE]
    ELSE [before |-> SubSeq(t, 1, i),
          after |-> SubSeq(t, i + Len(sep) + 1, Len(t)), found |-> TRUE]

RECURSIVE Split(_, _)
Split(t, sep) ==
    LET c == Cut(t, sep) IN
    IF c.found THEN <<c.before>> \o Split(c.after, sep) ELSE <<t>>

RECURSIVE Join(_, _)
Join(parts, sep) ==
    IF parts = <<>> THEN <<>>
    ELSE IF Len(parts) = 1 THEN parts[1]
    ELSE parts[1] \o sep \o Join(Tail(parts), sep)

\* URI.String
URIString(u) ==
    u.Scheme \o Colon
        \o (IF u.Hostname # <<>> THEN Slash \o Slash ELSE <<>>)
        \o u.Hostname
        \o (IF u.Hostname # <<>> /\ u.Path # <<>> /\ ~HasPrefix(u.Path, Slash)
            THEN Slash ELSE <<>>)
        \o u.Path
        \o (IF u.Query # <<>> /\ ~HasPrefix(u.Query, QuestionMark)
            THEN QuestionMark ELSE <<>>)
        \o u.Query

IsLetter(c) == (c >= 97 /\ c <= 122) \/ (c >= 65 /\ c <= 90)

IsSchemeExtra(c) == (c >= 48 /\ c <= 57) \/ c \in {43, 45, 46}

\* getScheme of net/url: the scheme and the rest, or no scheme at all
RECURSIVE getSchemeFrom(_, _)
getSchemeFrom(t, i) ==
    IF i >= Len(t) THEN [scheme |-> <<>>, rest |-> t, err |-> "nil"]
    ELSE LET c == t[i + 1] IN
        IF IsLetter(c) THEN getSchemeFrom(t, i + 1)
        ELSE IF IsSchemeExtra(c) THEN
            IF i = 0 THEN [scheme |-> <<>>, rest |-> t, err |-> "nil"]
            ELSE getSchemeFrom(t, i + 1)
        ELSE IF c = 58 THEN
            IF i = 0 THEN [scheme |-> <<>>, rest |-> <<>>, err |-> "missing protocol scheme"]
            ELSE [scheme |-> SubSeq(t, 1, i), rest |-> SubSeq(t, i + 2, Len(t)),
                  err |-> "nil"]
        ELSE [scheme |-> <<>>, rest |-> t, err |-> "nil"]

\* a <= b in the byte-wise order of Go strings
RECURSIVE LexLeq(_, _)
LexLeq(a, b) ==
    IF a = <<>> THEN TRUE
    ELSE IF b = <<>> THEN FALSE
    ELSE IF a[1] # b[1] THEN a[1] < b[1]
    ELSE LexLeq(Tail(a), Tail(b))

RECURSIVE SortTexts(_)
SortTexts(S) ==
    IF S = {} THEN <<>>
    ELSE LET m == CHOOSE x \in S : \A y \in S : LexLeq(x, y)
         IN <<m>> \o SortTexts(S \ {m})

\* url.ParseQuery: the key=value pairs of a raw query, in order (percent
\* escapes are outside the model: the texts hold unreserved characters).
RECURSIVE QueryPairs(_)
QueryPairs(pieces) ==
    IF pieces = <<>> THEN <<>>
    ELSE IF pieces[1] = <<>> \/ Index(pieces[1], <<59>>) >= 0
    THEN QueryPairs(Tail(pieces))
    ELSE LET c == Cut(pieces[1], <<61>>)
         IN <<<<c.before, c.after>>>> \o QueryPairs(Tail(pieces))

RECURSIVE EncodeKey(_, _)
EncodeKey(k, pairs) ==
    IF pairs = <<>> THEN <<>>
    ELSE (IF pairs[1][1] = k THEN <<k \o <<61>> \o pairs[1][2]>> ELSE <<>>)
            \o EncodeKey(k, Tail(pairs))

RECURSIVE EncodeKeys(_, _)
EncodeKeys(keys, pairs) ==
    IF keys = <<>> THEN <<>>
    ELSE EncodeKey(keys[1], pairs) \o EncodeKeys(Tail(keys), pairs)

\* ur.Query().Encode(): the pairs sorted by key, as key=value joined by "&"
QueryEncode(rawQuery) ==
    LET pairs == QueryPairs(Split(rawQuery, <<38>>))
        keys == SortTexts({pairs[i][1] : i \in 1..Len(pairs)})
    IN Join(EncodeKeys(keys, pairs), <<38>>)

\* ur.EscapedPath() for a path of letters, digits, "/", ".", ":", "$" and
\* spaces: a space is not valid in an encoded path, so the path is escaped
\* anew and each space becomes "%20".
RECURSIVE EscapedPath(_)
EscapedPath(p) ==
    IF p = <<>> THEN <<>>
    ELSE (IF Head(p) = 32 THEN <<37, 50, 48>> ELSE <<Head(p)>>)
            \o EscapedPath(Tail(p))

\* url.Parse, for texts without control bytes, escapes, user information or
\* IPv6 literals: Scheme, Opaque, Host, the path and RawQuery.
urlParse(t) ==
    LET noFrag == Cut(t, <<35>>).before
        sch == getSchemeFrom(noFrag, 0)
        q == Cut(sch.rest, QuestionMark)
        rest == q.before
        authRest == SubSeq(rest, 3, Len(rest))
        i == Index(authRest, Slash)
    IN  IF sch.err # "nil"
        THEN [err |-> sch.err, Scheme |-> <<>>, Opaque |-> <<>>, Host |-> <<>>,
              Path |-> <<>>, RawQuery |-> <<>>]
        ELSE IF ~HasPrefix(rest, Slash) /\ sch.scheme # <<>>
        THEN [err |-> "nil", Scheme |-> sch.scheme, Opaque |-> rest, Host |-> <<>>,
              Path |-> <<>>, RawQuery |-> q.after]
        ELSE IF ~HasPrefix(rest, Slash) /\ Index(Cut(rest, Slash).before, Colon) >= 0
        THEN [err |-> "first path segment in URL cannot contain colon",
              Scheme |-> <<>>, Opaque |-> <<>>, Host |-> <<>>, Path |-> <<>>,
              RawQuery |-> <<>>]
        ELSE IF HasPrefix(rest, Slash \o Slash)
                /\ (sch.scheme # <<>> \/ ~HasPrefix(rest, Slash \o Slash \o Slash))
        THEN [err |-> "nil", Scheme |-> sch.scheme, Opaque |-> <<>>,
              Host |-> IF i >= 0 THEN SubSeq(authRest, 1, i) ELSE authRest,
              Path |-> IF i >= 0 THEN SubSeq(authRest, i + 1, Len(authRest)) ELSE <<>>,
              RawQuery |-> q.after]
        ELSE [err |-> "nil", Scheme |-> sch.scheme, Opaque |-> <<>>, Host |-> <<>>,
              Path |-> rest, RawQuery |-> q.after]

\* URI.FromURL
FromURL(ur) ==
    [Scheme |-> IF ur.Scheme = <<>> THEN FileScheme ELSE ur.Scheme,
     Hostname |-> ur.Host,
     Path |-> IF ur.Opaque # <<>> THEN ur.Opaque ELSE EscapedPath(ur.Path),
     Query |-> QueryEncode(ur.RawQuery)]

ZeroURI == [Scheme |-> <<>>, Hostname |-> <<>>, Path |-> <<>>, Query |-> <<>>]

\* URI.FromString: the URI and the error of url.Parse
FromString(t) ==
    LET ur == urlParse(t) IN
    IF ur.err # "nil" THEN [uri |-> ZeroURI, err |-> ur.err]
    ELSE [uri |-> FromURL(ur), err |-> "nil"]

\* -- local file paths (filePathOf, uriOfFilePath) -------------------------

Backslash == <<92>>

\* strings.ReplaceAll(t, "\\", "/")
RECURSIVE ToSlashes(_)
ToSlashes(t) ==
    IF t = <<>> THEN <<>>
    ELSE (IF Head(t) = 92 THEN Slash ELSE <<Head(t)>>) \o ToSlashes(Tail(t))

\* runtime.GOOS: "windows", or any other system
GOOS == {"windows", "linux"}

\* filePathOf(u): on Windows the UNC path, with a drive letter under a
\* hostname rewritten to its administrative share; elsewhere u.String().
filePathOf(goos, u) ==
    IF goos = "windows"
    THEN LET parts == Tail(Split(u.Path, Slash))
             shared == IF /\ u.Hostname # <<>>
                          /\ Len(parts) >= 2
                          /\ Len(parts[1]) = 2
                          /\ parts[1][2] = 58
                       THEN <<<<parts[1][1], 36>>>> \o Tail(parts)
                       ELSE parts
         IN (IF u.Hostname # <<>>
             THEN Backslash \o Backslash \o u.Hostname \o Backslash
             ELSE <<>>) \o Join(shared, Backslash)
    ELSE URIString(u)

\* uriOfFilePath(fullPath): the URI and whether the call panicked.  On
\* Windows the slice fullPath[2:n] and the index fullPath[2] can be out of
\* range; elsewhere the error of FromString is the panic.
uriOfFilePath(goos, fullPath) ==
    IF goos = "windows"
    THEN LET unc == HasPrefix(fullPath, Backslash \o Backslash)
             n == Index(SubSeq(fullPath, 3, Len(fullPath)), Backslash) + 2
             host == IF unc THEN SubSeq(fullPath, 3, n) ELSE <<>>
             rest == IF unc THEN SubSeq(fullPath, n + 1, Len(fullPath))
                     ELSE fullPath
             local == IF unc /\ Len(rest) >= 3 /\ rest[3] = 36
                      THEN SubSeq(rest, 1, 2) \o Colon
                                \o SubSeq(rest, 4, Len(rest))
                      ELSE rest
             path == ToSlashes(local)
         IN IF unc /\ (n < 2 \/ Len(rest) = 2)
            THEN [uri |-> ZeroURI, err |-> "panic"]
            ELSE [uri |-> [Scheme |-> FileScheme, Hostname |-> host,
                           Path |-> IF HasPrefix(path, Slash) THEN path
                                    ELSE Slash \o path,
                           Query |-> <<>>],
                  err |-> "nil"]
    ELSE LET got == FromString(fullPath) IN
         IF got.err # "nil" THEN [uri |-> ZeroURI, err |-> "panic"]
         ELSE [uri |-> got.uri, err |-> "nil"]

\* ------------------------------------------------------------------------
\* Repository (sqlrepo.Repo over the tables Resource and Indication)
\* ------------------------------------------------------------------------

\* Indication.Lookup: the entries as a mapping key -> value, here the set of
\* its (key, value) pairs; of two entries with one key the later one stays.
Lookup(b) ==
    LET es == Entries(b) IN
    {es[i] : i \in {j \in 1..Len(es) :
                        \A k \in (j + 1)..Len(es) : es[k][1] # es[j][1]}}

\* Indication.Each: the callback runs on every entry, in order.
Each(b) == Entries(b)

\* stream.Single over Resource filtered by Uri = u.String(): the rows that
\* may be read into res; the zero Resource when there is none.
ZeroResource == [ResourceID |-> 0, Uri |-> <<>>]

ResourceByUriNone(rs, u) == {ZeroResource}

\* stream.Single(ctx, resQry, stream.JustNext) in SetIndications.
ResourceByUri(rs, u) ==
    LET found == {r \in rs : r.Uri = URIString(u)} IN
    IF found = {} THEN {ZeroResource} ELSE found

RowMatchesOtherValue(row, lu) ==
    \E e \in lu : e[1] = row.Key /\ e[2] # row.Value

\* if v, ok := lu[k]; ok && bytes.Equal(ind.Value, v)
RowMatches(row, lu) == <<row.Key, row.Value>> \in lu

\* The rows stream.Each may leave alone: of the existing rows that match lu,
\* one for each key (a matching key is deleted from lu when its first row is
\* seen, so a second row of that key no longer matches).
KeptChoices(existing, lu) ==
    LET m == {row \in existing : RowMatches(row, lu)} IN
    {kept \in SUBSET m :
        \A k \in {row.Key : row \in m} :
            Cardinality({row \in kept : row.Key = k}) = 1}

DeletingNone(existing, kept) == {}

\* deletingIndication: the existing rows that were not left alone.
Deleting(existing, kept) == existing \ kept

\* The steps of SetIndications that can return an error, in the order the
\* call comes to them.
StepOrder == <<"begin", "single", "saveRes", "each", "delete", "saveInd", "none">>

FailSteps == Range(StepOrder)

StepIndex(step) == CHOOSE i \in 1..Len(StepOrder) : StepOrder[i] = step

catcherCommitting(before, inTx, failAt) == inTx

\* ctx, _, catcher, err := r.db.WithTx(ctx); defer catcher(&Err): the
\* transaction is committed when the call returns nil and rolled back when
\* it returns an error.
catcher(before, inTx, failAt) == IF failAt = "none" THEN inTx ELSE before

\* All orders of a finite set, as sequences: the order in which
\* "for k, v := range lu" meets the keys.
RECURSIVE Orders(_)
Orders(S) ==
    IF S = {} THEN {<<>>}
    ELSE UNION {{<<x>> \o t : t \in Orders(S \ {x})} : x \in S}

\* r.db.Save(ctx, creatingIndications...): one row for each pair, with the
\* next identities in the order given.
NewRows(order, rid, firstID) ==
    {[IndicationID |-> firstID + i - 1, ResourceID |-> rid,
      Key |-> order[i][1], Value |-> order[i][2]] : i \in 1..Len(order)}

\* The Indication table joined to Resource on ResourceID: the query of
\* Repo.Indications and of Repo.URIs, which carries no other condition.
Joined(rs, is) ==
    {<<i, r>> \in is \X rs : i.ResourceID = r.ResourceID}

\* lookup[Bytes(ind.Key)] = ind.Value over the streamed rows: for each key
\* the value of the row streamed last, in whatever order the rows come.
LookupsOf(rows) ==
    LET keys == {jr[1].Key : jr \in rows}
        vals(k) == {jr[1].Value : jr \in {x \in rows : x[1].Key = k}}
        fs == {f \in [keys -> UNION {vals(k) : k \in keys}] :
                    \A k \in keys : f[k] \in vals(k)}
    IN {{<<k, f[k]>> : k \in keys} : f \in fs}

\* -- the query compile of Repo.URIs ----------------------------------------

NilExpr == [type |-> "nil"]

IndLeaf(b) == [type |-> "Indication", ind |-> b]

And(l, r) == [type |-> "And", args |-> <<l, r>>]

Or(l, r) == [type |-> "Or", args |-> <<l, r>>]

Eq(col, val) == [type |-> "Eq", col |-> col, val |-> val]

\* An expression of any other type, with these operands.
Other(args) == [type |-> "Other", args |-> args]

\* expr.Inspect(query, f): f on a node, then its operands, then f(nil).
RECURSIVE Inspection(_)
Inspection(e) ==
    LET RECURSIVE Operands(_)
        Operands(args) ==
            IF args = <<>> THEN <<>>
            ELSE Inspection(Head(args)) \o Operands(Tail(args))
    IN <<e>> \o (IF e.type \in {"And", "Or", "Other"} THEN Operands(e.args)
                 ELSE <<>>)
             \o <<NilExpr>>

\* e.Each(...) on an Indication leaf: the conjunction of
\* (Key = key AND Value = value) over its entries, built on *top.
RECURSIVE LeafExpr(_, _)
LeafExpr(es, top) ==
    IF es = <<>> THEN top
    ELSE LET indExpr == And(Eq("Key", es[1][1]), Eq("Value", es[1][2]))
         IN LeafExpr(Tail(es), IF top = NilExpr THEN indExpr ELSE And(top, indExpr))

\* One call of the function given to expr.Inspect.  st.stack: the frames
\* <<expression, first rewritten operand, second rewritten operand>>;
\* st.Err: the errors aggregated.
InspectStep(st, e) ==
    IF e # NilExpr
    THEN [st EXCEPT !.stack = Append(@, <<e, NilExpr, NilExpr>>)]
    ELSE LET es == st.stack[Len(st.stack)]
             stack1 == SubSeq(st.stack, 1, Len(st.stack) - 1)
             n == Len(stack1)
             sec == stack1[n]
             slot == IF sec[2] = NilExpr THEN 2 ELSE 3
         IN  IF sec[2] # NilExpr /\ sec[3] # NilExpr
             THEN [stack |-> stack1,
                   Err |-> Append(st.Err, "non-binary expressions are not supported")]
             ELSE IF es[1].type = "Indication"
             THEN [stack |-> [stack1 EXCEPT
                                ![n][slot] = LeafExpr(Each(es[1].ind), sec[slot])],
                   Err |-> st.Err]
             ELSE IF es[1].type = "And"
             THEN [stack |-> [stack1 EXCEPT ![n][slot] = And(es[2], es[3])],
                   Err |-> st.Err]
             ELSE IF es[1].type = "Or"
             THEN [stack |-> [stack1 EXCEPT ![n][slot] = Or(es[2], es[3])],
                   Err |-> st.Err]
             ELSE [stack |-> stack1,
                   Err |-> Append(st.Err, "invalid expression")]

RECURSIVE InspectAll(_, _)
InspectAll(st, events) ==
    IF events = <<>> THEN st
    ELSE InspectAll(InspectStep(st, events[1]), Tail(events))

\* The compile: stack[0][1] holds the rewritten expression at the end.
Compile(query) ==
    InspectAll([stack |-> <<<<NilExpr, NilExpr, NilExpr>>>>, Err |-> <<>>],
               Inspection(query))

\* stream.Each over resQry in Repo.URIs: one URI for each joined row.
RECURSIVE UrisOf(_)
UrisOf(rows) ==
    IF rows = {} THEN EmptyBag
    ELSE LET jr == CHOOSE x \in rows : TRUE
         IN SetToBag({FromString(jr[2].Uri).uri}) (+) UrisOf(rows \ {jr})

URIsResultDespiteErr(c, rows) == [uris |-> UrisOf(rows), Err |-> <<>>]

\* Repo.URIs after the compile: "if Err != nil { return }", else the URIs
\* streamed.
URIsResult(c, rows) ==
    IF c.Err # <<>> THEN [uris |-> EmptyBag, Err |-> c.Err]
    ELSE [uris |-> UrisOf(rows), Err |-> <<>>]

\* ------------------------------------------------------------------------
\* Readers, io.Copy under a context, and the leaf indicators step by step
\* ------------------------------------------------------------------------

\* What the reader handed to Indicate can do besides Read: Len(), Size(),
\* Stat(), Seek(), or nothing.
ReaderCaps == {"Len", "Size", "Stat", "Seeker", "Reader"}

\* An io.Reader over src, at offset pos.  errAt: the offset at which its
\* Read fails (-1: nowhere).
ReaderOf(cap, src, pos, errAt) ==
    [cap |-> cap, src |-> src, pos |-> pos, errAt |-> errAt]

\* r.Read(p) with len(p) = BlockSize on the reader rd: the bytes, the new
\* reader and the error.
ReadBlock(rd) ==
    IF rd.pos = rd.errAt
    THEN [bytes |-> <<>>, rd |-> rd, err |-> "io"]
    ELSE IF rd.pos >= Len(rd.src)
    THEN [bytes |-> <<>>, rd |-> rd, err |-> "EOF"]
    ELSE LET stop == IF rd.errAt > rd.pos
                     THEN Min(Min(rd.pos + BlockSize, Len(rd.src)), rd.errAt)
                     ELSE Min(rd.pos + BlockSize, Len(rd.src))
         IN [bytes |-> Slice(rd.src, rd.pos, stop),
             rd |-> [rd EXCEPT !.pos = stop],
             err |-> "nil"]

\* The state of one leaf Indicate call.  pc: "start", "read", "write",
\* "sum", "done".  h: the bytes the hasher (or io.Discard) was given.
LeafCallOf(kind, rd, b) ==
    [kind |-> kind, rd |-> rd, pc |-> "start", chunk |-> <<>>, h |-> <<>>,
     n |-> 0, err |-> "nil", out |-> b, before |-> b, start |-> rd.pos,
     ctxDone |-> FALSE, observed |-> FALSE]

NoLeaf == LeafCallOf("length", ReaderOf("Reader", <<>>, 0, -1), <<>>)

LeafFail(l, err) == [l EXCEPT !.pc = "done", !.err = err]

readerContextReadUnheeded(l) ==
    LET got == ReadBlock(l.rd)
        seen == [l EXCEPT !.observed = @ \/ l.ctxDone]
    IN IF got.err = "EOF" THEN [seen EXCEPT !.pc = "sum"]
       ELSE IF got.err # "nil" THEN LeafFail(seen, got.err)
       ELSE [seen EXCEPT !.pc = "write", !.chunk = got.bytes, !.rd = got.rd]

\* readerContext.Read inside io.Copy
readerContextRead(l) ==
    IF l.ctxDone
    THEN [LeafFail(l, "canceled") EXCEPT !.observed = TRUE]
    ELSE LET got == ReadBlock(l.rd) IN
         IF got.err = "EOF" THEN [l EXCEPT !.pc = "sum"]
         ELSE IF got.err # "nil" THEN LeafFail(l, got.err)
         ELSE [l EXCEPT !.pc = "write", !.chunk = got.bytes, !.rd = got.rd]

\* writerContext.Write inside io.Copy
writerContextWrite(l) ==
    IF l.ctxDone
    THEN [LeafFail(l, "canceled") EXCEPT !.observed = TRUE]
    ELSE [l EXCEPT !.pc = "read", !.h = @ \o l.chunk, !.n = @ + Len(l.chunk),
                   !.chunk = <<>>]

\* The entries a leaf indicator writes once it has the length n and, for a
\* hash, the bytes h the hasher was given.
KeyOf(kind) == IF kind = "crc32" THEN crc32Key ELSE sha256Key

SizeOf(kind) == IF kind = "crc32" THEN crc32Size ELSE sha256Size

LeafWritesKeyFirst(kind, n, h, b) ==
    IF kind = "length" THEN IndWrite(b, lengthIndicatorKey, PutUint64(n))
    ELSE IndWrite(IndWrite(b, KeyOf(kind), HashSum(SizeOf(kind), h)),
                  lengthIndicatorKey, PutUint64(n))

LeafWrites(kind, n, h, b) ==
    IF kind = "length" THEN IndWrite(b, lengthIndicatorKey, PutUint64(n))
    ELSE IndWrite(IndWrite(b, lengthIndicatorKey, PutUint64(n)),
                  KeyOf(kind), HashSum(SizeOf(kind), h))

\* lengthIndicator.Indicate, the type switch on the reader: the outcomes of
\* the cases that do not read.  Stat and Seek may fail.
LengthOfCap(rd) ==
    IF rd.cap = "Len" THEN {[n |-> Len(rd.src) - rd.pos, err |-> "nil"]}
    ELSE IF rd.cap = "Size" THEN {[n |-> Len(rd.src), err |-> "nil"]}
    ELSE IF rd.cap = "Stat"
    THEN {[n |-> Len(rd.src), err |-> "nil"], [n |-> 0, err |-> "stat"]}
    ELSE {[n |-> Len(rd.src) - rd.pos, err |-> "nil"], [n |-> 0, err |-> "seek"]}

\* ------------------------------------------------------------------------
\* The state of each part while another part is exercised
\* ------------------------------------------------------------------------

NoCall == [pc |-> "idle", src |-> <<>>, lanes |-> <<>>, outBefore |-> 0]

NoResult == [status |-> "none", errs |-> <<>>, entries |-> <<>>,
             irs |-> <<>>, src |-> <<>>, closed |-> FALSE]

BufIdle ==
    /\ buf = <<>>
    /\ rdr = [idx |-> -1, got |-> <<>>, last |-> "none"]
    /\ written = <<>>
    /\ resetDone = FALSE

NoRepoOp == [op |-> "none"]

RepoIdle ==
    /\ resources = {}
    /\ indications = {}
    /\ nextID = [Resource |-> 1, Indication |-> 1]
    /\ repoOp = NoRepoOp
    /\ lastSet = <<>>
    /\ nSets = 0

NoTee == [pc |-> "none"]

NoConv == [goos |-> "none"]

NoFan == [n |-> 0]

StreamIdle ==
    /\ leaf = NoLeaf
    /\ tee = NoTee
    /\ conv = NoConv
    /\ fan = NoFan

PipeIdle ==
    /\ scanners = <<>>
    /\ requests = <<>>
    /\ results = <<>>
    /\ closed = [requests |-> FALSE, results |-> FALSE]
    /\ indWorkers = <<>>
    /\ pcRepo = "none"
    /\ pcMain = "none"
    /\ ctxErr = FALSE
    /\ hist = [panicked |-> FALSE]

LibIdle ==
    /\ pool = EmptyBag
    /\ held = NilInd
    /\ irs = <<>>
    /\ call = NoCall
    /\ callRes = NoResult
    /\ acquired = PoolNew
    /\ nCalls = 0
    /\ nNews = 0

\* -- the buffer scenario: one Indication, written, reset and read ---------

NoReader == [idx |-> -1, got |-> <<>>, last |-> "none"]

LongKey == [i \in 1..130 |-> 7]

KeyInputs == {<<>>, <<1>>, <<1, 130>>, LongKey}

ValueInputs == {<<>>, <<200>>, <<0, 5>>}

InitBuf ==
    /\ scenario = "buf"
    /\ buf \in {<<>>, IndWrite(<<>>, <<3>>, <<4>>)}
    /\ rdr = NoReader
    /\ written = <<>>
    /\ resetDone = FALSE
    /\ LibIdle
    /\ RepoIdle
    /\ PipeIdle
    /\ StreamIdle

\* ind.Reset()
Reset ==
    /\ scenario = "buf"
    /\ buf' = IndReset(buf)
    /\ written' = <<>>
    /\ resetDone' = TRUE
    /\ rdr' = NoReader
    /\ UNCHANGED <<scenario, streamVars, libVars, repoVars, pipeVars>>

\* ind.Write(key, value), after a Reset
Write(key, value) ==
    /\ scenario = "buf"
    /\ Len(Entries(buf)) < MaxWrites
    /\ buf' = IndWrite(buf, key, value)
    /\ written' = IF resetDone THEN Append(written, <<key, value>>) ELSE written
    /\ rdr' = NoReader
    /\ UNCHANGED <<scenario, streamVars, resetDone, libVars, repoVars, pipeVars>>

\* ind.Reader()
Reader ==
    /\ scenario \in {"buf", "raw"}
    /\ rdr' = [idx |-> 0, got |-> <<>>, last |-> "new"]
    /\ UNCHANGED <<scenario, streamVars, buf, written, resetDone, libVars, repoVars, pipeVars>>

\* r.Next()
Next_ ==
    /\ scenario \in {"buf", "raw"}
    /\ rdr # NoReader
    /\ rdr.last \in {"new", "nil"}
    /\ LET n == ReaderNext(buf, rdr.idx) IN
       rdr' = [idx |-> n.idx,
               got |-> IF n.err = "nil" THEN Append(rdr.got, <<n.key, n.value>>)
                       ELSE rdr.got,
               last |-> n.err]
    /\ UNCHANGED <<scenario, streamVars, buf, written, resetDone, libVars, repoVars, pipeVars>>

NextBuf ==
    \/ Reset
    \/ \E key \in KeyInputs, value \in ValueInputs : Write(key, value)
    \/ Reader
    \/ Next_

SpecBuf == InitBuf /\ [][NextBuf]_vars

\* -- the raw scenario: a reader over a buffer of any bytes ------------------

\* Bytes of a buffer that did not come from Write: small lengths, and 128,
\* the first byte of a varint that goes on.
RawBytes == {0, 1, 2, 128}

RawBuffers == UNION {[1..n -> RawBytes] : n \in 0..MaxRawLen}

\* An Indication over any bytes (in the package: &Indication{buf}; outside
\* it: bytes overwritten through the slice Bytes() returns).
InitRaw ==
    /\ scenario = "raw"
    /\ buf \in RawBuffers
    /\ rdr = NoReader
    /\ written = <<>>
    /\ resetDone = FALSE
    /\ LibIdle
    /\ RepoIdle
    /\ PipeIdle
    /\ StreamIdle

NextRaw ==
    \/ Reader
    \/ Next_

SpecRaw == InitRaw /\ [][NextRaw]_vars

\* -- the library scenario: a caller of the pool and of one Composite -------

IrsInputs == {<<"crc32", "sha256">>, <<"length">>, <<"sha256", "length", "crc32">>}

SrcInputs == {<<>>, <<2, 1>>}

UserEntries == {<<lengthIndicatorKey, PutUint64(9)>>}

Panicked == [NoResult EXCEPT !.status = "panic", !.closed = (irs = <<>>)]

\* idrs := NewIndicators(irs...), one worker per child waiting on its channel
InitLib ==
    /\ scenario = "lib"
    /\ BufIdle
    /\ RepoIdle
    /\ PipeIdle
    /\ StreamIdle
    /\ pool = EmptyBag
    /\ held = NilInd
    /\ irs \in IrsInputs
    /\ call = NoCall
    /\ callRes = NoResult
    /\ acquired = PoolNew
    /\ nCalls = 0
    /\ nNews = 0

\* ind := NewIndication() in the caller
UserNew ==
    /\ scenario = "lib"
    /\ call.pc = "idle"
    /\ held.nil
    /\ nNews < MaxNews
    /\ \E g \in NewIndication(pool) :
        /\ held' = g.item
        /\ pool' = g.pool
        /\ acquired' = g.item
    /\ nNews' = nNews + 1
    /\ UNCHANGED <<scenario, streamVars, bufVars, repoVars, pipeVars, irs, call, callRes, nCalls>>

\* ind.Write(key, value) in the caller
UserWrite(e) ==
    /\ scenario = "lib"
    /\ call.pc = "idle"
    /\ ~held.nil
    /\ Len(Entries(held.buf)) < MaxWrites
    /\ held' = Ptr(IndWrite(held.buf, e[1], e[2]))
    /\ UNCHANGED <<scenario, streamVars, bufVars, repoVars, pipeVars, pool, irs, call, callRes, acquired, nCalls, nNews>>

\* PutIndication(&ind) in the caller
UserPut ==
    /\ scenario = "lib"
    /\ call.pc = "idle"
    /\ ~held.nil
    /\ pool' = PutIndication(pool, held)
    /\ held' = NilInd
    /\ UNCHANGED <<scenario, streamVars, bufVars, repoVars, pipeVars, irs, call, callRes, acquired, nCalls, nNews>>

\* irs.Close(): every request channel closed, irs.reqs = nil, irs.irs = nil
Close ==
    /\ scenario = "lib"
    /\ call.pc = "idle"
    /\ irs' = <<>>
    /\ UNCHANGED <<scenario, streamVars, bufVars, repoVars, pipeVars, pool, held, call, callRes, acquired, nCalls, nNews>>

\* irs.Indicate(ctx, r, ind), to wg1.Add(len(irs.irs) - 1): a negative count
\* makes WaitGroup.Add panic.
IndicateBegin(src) ==
    /\ scenario = "lib"
    /\ call.pc = "idle"
    /\ ~held.nil
    /\ nCalls < MaxCalls
    /\ nCalls' = nCalls + 1
    /\ IF Len(irs) - 1 < 0
       THEN /\ call' = [NoCall EXCEPT !.pc = "panic"]
            /\ callRes' = Panicked
       ELSE /\ call' = [pc |-> "acquire", src |-> src, lanes |-> <<>>,
                        outBefore |-> Len(Entries(held.buf))]
            /\ callRes' = NoResult
    /\ UNCHANGED <<scenario, streamVars, bufVars, repoVars, pipeVars, pool, held, irs, acquired, nNews>>

\* reqs[i] = &indicatorReq{ctx: ctx, ind: NewIndication()} for the next lane;
\* after the last one every request is sent and the caller waits for lane 0.
IndicateAcquire ==
    /\ scenario = "lib"
    /\ call.pc = "acquire"
    /\ \E g \in NewIndication(pool) :
        /\ pool' = g.pool
        /\ acquired' = g.item
        /\ LET lanes1 == Append(call.lanes,
                            [ind |-> g.item, err |-> "nil", done |-> FALSE])
           IN call' = [call EXCEPT !.lanes = lanes1,
                           !.pc = IF Len(lanes1) = Len(irs) THEN "lane0" ELSE "acquire"]
    /\ UNCHANGED <<scenario, streamVars, bufVars, repoVars, pipeVars, held, irs, callRes, nCalls, nNews>>

\* The worker of lane i (lane i - 1 of the code): idrs.irs[i].Indicate(req.ctx,
\* req.r, req.ind) and req.wg.Done().  Lane 0 reads the source through the
\* tee; the other lanes read the same bytes from their pipes and see the end
\* of the stream once lane 0 is done and the caller has closed the writers.
LaneIndicate(i) ==
    /\ scenario = "lib"
    /\ call.pc = (IF i = 1 THEN "lane0" ELSE "lanes")
    /\ i \in 1..Len(call.lanes)
    /\ ~call.lanes[i].done
    /\ IF call.lanes[i].ind.nil
       THEN /\ call' = [call EXCEPT !.pc = "panic"]
            /\ callRes' = Panicked
       ELSE /\ call' = [call EXCEPT
                    !.lanes[i].ind = Ptr(LeafIndicate(irs[i], call.src, @.buf)),
                    !.lanes[i].done = TRUE,
                    !.pc = IF i = 1 THEN "lanes" ELSE @]
            /\ UNCHANGED callRes
    /\ UNCHANGED <<scenario, streamVars, bufVars, repoVars, pipeVars, pool, held, irs, acquired, nCalls, nNews>>

\* After wg1.Wait(): the merge into the caller's Indication, the lanes'
\* Indications put back, return errs.
IndicateMerge ==
    /\ scenario = "lib"
    /\ call.pc = "lanes"
    /\ \A i \in 1..Len(call.lanes) : call.lanes[i].done
    /\ LET st == MergeLanes(call.lanes, [visited |-> {}, out |-> held.buf,
                                         errs |-> <<>>, panic |-> FALSE])
           all == Entries(st.out)
       IN /\ held' = Ptr(st.out)
          /\ pool' = PutAll(pool, call.lanes)
          /\ callRes' = [status |-> IF st.panic THEN "panic" ELSE "returned",
                         errs |-> st.errs,
                         entries |-> SubSeq(all, call.outBefore + 1, Len(all)),
                         irs |-> irs, src |-> call.src, closed |-> FALSE]
          /\ call' = IF st.panic THEN [NoCall EXCEPT !.pc = "panic"] ELSE NoCall
    /\ UNCHANGED <<scenario, streamVars, bufVars, repoVars, pipeVars, irs, acquired, nCalls, nNews>>

NextLib ==
    \/ UserNew
    \/ \E e \in UserEntries : UserWrite(e)
    \/ UserPut
    \/ Close
    \/ \E src \in SrcInputs : IndicateBegin(src)
    \/ IndicateAcquire
    \/ \E i \in 1..Len(irs) : LaneIndicate(i)
    \/ IndicateMerge

SpecLib == InitLib /\ [][NextLib]_vars

\* ------------------------------------------------------------------------
\* Repository scenario: SetIndications, Indications and URIs on one Repo
\* ------------------------------------------------------------------------

URITexts == {<<102, 105, 108, 101, 58, 47, 97>>, <<102, 105, 108, 101, 58, 47, 47, 104, 47, 98, 63, 120, 61, 49>>}

URIInputs == {FromString(t).uri : t \in URITexts}

IndInputs ==
    {WriteAll(<<>>, <<<<lengthIndicatorKey, <<1>>>>>>),
     WriteAll(<<>>, <<<<lengthIndicatorKey, <<1>>>>, <<crc32Key, <<7>>>>>>),
     WriteAll(<<>>, <<<<lengthIndicatorKey, <<2>>>>, <<crc32Key, <<7>>>>>>),
     WriteAll(<<>>, <<<<crc32Key, <<8>>>>, <<crc32Key, <<7>>>>>>)}

QueryInputs ==
    {IndLeaf(WriteAll(<<>>, <<<<lengthIndicatorKey, <<1>>>>>>)),
     And(IndLeaf(WriteAll(<<>>, <<<<lengthIndicatorKey, <<1>>>>>>)),
         IndLeaf(WriteAll(<<>>, <<<<crc32Key, <<7>>>>>>))),
     Or(IndLeaf(WriteAll(<<>>, <<<<lengthIndicatorKey, <<2>>>>>>)),
        IndLeaf(WriteAll(<<>>, <<<<crc32Key, <<8>>>>>>))),
     IndLeaf(WriteAll(<<>>, <<<<lengthIndicatorKey, <<1>>>>, <<crc32Key, <<7>>>>>>)),
     IndLeaf(<<>>),
     And(IndLeaf(<<>>), IndLeaf(WriteAll(<<>>, <<<<lengthIndicatorKey, <<1>>>>>>))),
     And(IndLeaf(WriteAll(<<>>, <<<<lengthIndicatorKey, <<1>>>>>>)), IndLeaf(<<>>)),
     Or(And(IndLeaf(WriteAll(<<>>, <<<<lengthIndicatorKey, <<1>>>>>>)),
            IndLeaf(WriteAll(<<>>, <<<<crc32Key, <<7>>>>>>))),
        IndLeaf(WriteAll(<<>>, <<<<lengthIndicatorKey, <<2>>>>>>))),
     Other(<<>>),
     Other(<<IndLeaf(WriteAll(<<>>, <<<<lengthIndicatorKey, <<1>>>>>>))>>),
     Other(<<IndLeaf(WriteAll(<<>>, <<<<lengthIndicatorKey, <<1>>>>>>)),
             IndLeaf(WriteAll(<<>>, <<<<crc32Key, <<7>>>>>>))>>),
     And(IndLeaf(WriteAll(<<>>, <<<<lengthIndicatorKey, <<1>>>>>>)), Other(<<>>)),
     Other(<<IndLeaf(WriteAll(<<>>, <<<<lengthIndicatorKey, <<1>>>>>>)),
             IndLeaf(WriteAll(<<>>, <<<<crc32Key, <<7>>>>>>)),
             IndLeaf(WriteAll(<<>>, <<<<crc32Key, <<8>>>>>>))>>)}

NotSet == [set |-> FALSE, lu |-> {}]

RepoOp(op, uri, ind, lu, result, err) ==
    [op |-> op, uri |-> uri, ind |-> ind, lu |-> lu, result |-> result,
     err |-> err, inserted |-> {}, deleted |-> {}, resInserted |-> FALSE,
     repeat |-> FALSE, before |-> <<resources, indications>>]

InitRepo ==
    /\ scenario = "repo"
    /\ BufIdle
    /\ LibIdle
    /\ resources = {}
    /\ indications = {}
    /\ nextID = [Resource |-> 1, Indication |-> 1]
    /\ repoOp = NoRepoOp
    /\ lastSet = [t \in URITexts |-> NotSet]
    /\ nSets = 0
    /\ PipeIdle
    /\ StreamIdle

\* Repo.SetIndications(ctx, u, ui), whole: failAt is the step that returns
\* an error ("none": no step does).  A step that the call does not come to
\* cannot fail.
SetIndications(u, b) ==
    /\ scenario = "repo"
    /\ nSets < MaxSets
    /\ \E res \in ResourceByUri(resources, u), failAt \in FailSteps :
        LET lu == Lookup(b)
            isNew == res.ResourceID = 0
            rid == IF isNew THEN nextID.Resource ELSE res.ResourceID
            existing == IF isNew THEN {}
                        ELSE {row \in indications : row.ResourceID = rid}
            at == StepIndex(failAt)
        IN
        /\ failAt \in (IF isNew THEN {"saveRes"} ELSE {"each", "delete"})
                        \cup {"none", "begin", "single", "saveInd"}
        /\ \E kept \in KeptChoices(existing, lu) :
            LET deleting == Deleting(existing, kept)
                creating == {e \in lu : e[1] \notin {row.Key : row \in kept}}
            IN \E order \in Orders(creating) :
               \E saved \in (IF failAt = "saveInd" THEN 0..(Len(order) - 1)
                             ELSE {Len(order)}) :
                LET created == NewRows(SubSeq(order, 1, saved), rid, nextID.Indication)
                    resDone == isNew /\ at > StepIndex("saveRes")
                    delDone == IF at > StepIndex("delete") THEN deleting ELSE {}
                    insDone == IF at >= StepIndex("saveInd") THEN created ELSE {}
                    inTx == <<IF resDone
                              THEN resources \cup
                                    {[ResourceID |-> rid, Uri |-> URIString(u)]}
                              ELSE resources,
                              (indications \ delDone) \cup insDone>>
                    tables == catcher(<<resources, indications>>, inTx, failAt)
                    used == [Resource |-> nextID.Resource + (IF resDone THEN 1 ELSE 0),
                             Indication |-> nextID.Indication + Cardinality(insDone)]
                IN
                /\ resources' = tables[1]
                /\ indications' = tables[2]
                /\ nextID' \in (IF failAt = "none" THEN {used} ELSE {used, nextID})
                /\ repoOp' = [RepoOp("SetIndications", URIString(u), b, lu, {},
                                     IF failAt = "none" THEN <<>> ELSE <<failAt>>)
                                EXCEPT !.inserted = insDone,
                                       !.deleted = delDone,
                                       !.resInserted = resDone,
                                       !.repeat = /\ failAt = "none"
                                                  /\ repoOp.op = "SetIndications"
                                                  /\ repoOp.err = <<>>
                                                  /\ repoOp.uri = URIString(u)
                                                  /\ repoOp.ind = b]
                /\ lastSet' = IF failAt = "none"
                              THEN [lastSet EXCEPT ![URIString(u)] =
                                                [set |-> TRUE, lu |-> lu]]
                              ELSE lastSet
    /\ nSets' = nSets + 1
    /\ UNCHANGED <<scenario, streamVars, bufVars, libVars, pipeVars>>

\* Repo.Indications(ctx, u): the lookup filled from the streamed rows,
\* written to an Indication of the pool.
Indications(u) ==
    /\ scenario = "repo"
    /\ \E lookup \in LookupsOf(Joined(resources, indications)) :
       \E got \in NewIndication(pool) :
       \E order \in Orders(lookup) :
            /\ repoOp' = RepoOp("Indications", URIString(u), <<>>, {},
                                Lookup(WriteAll(got.item.buf, order)), <<>>)
            /\ pool' = got.pool
    /\ UNCHANGED <<scenario, streamVars, bufVars, pipeVars, resources, indications, nextID, lastSet, nSets>>
    /\ UNCHANGED <<held, irs, call, callRes, acquired, nCalls, nNews>>

\* Repo.URIs(ctx, query)
URIs(query) ==
    /\ scenario = "repo"
    /\ LET got == URIsResult(Compile(query), Joined(resources, indications))
       IN repoOp' = RepoOp("URIs", <<>>, query, {}, got.uris, got.Err)
    /\ UNCHANGED <<scenario, streamVars, bufVars, libVars, pipeVars>>
    /\ UNCHANGED <<resources, indications, nextID, lastSet, nSets>>

NextRepo ==
    \/ \E u \in URIInputs, b \in IndInputs : SetIndications(u, b)
    \/ \E u \in URIInputs : Indications(u)
    \/ \E q \in QueryInputs : URIs(q)

SpecRepo == InitRepo /\ [][NextRepo]_vars

\* ------------------------------------------------------------------------
\* Pipeline scenario: main2 with its scan workers, indicate workers and
\* the repository goroutine
\* ------------------------------------------------------------------------

\* The roots given to main2, as the number of files under each.
FilesOf == <<2, 2>>

Roots == 1..Len(FilesOf)

Files == UNION {{<<r, k>> : k \in 1..FilesOf[r]} : r \in Roots}

Workers == 1..NWorkers

\* What a file holds; all that an indicator sees of it.
FileSrc(f) == [i \in 1..f[2] |-> f[1]]

\* indicators: what -i names, here the LengthIndicator alone.
PipeIndicators == <<"length">>

NoFile == <<0, 0>>

\* indictionResult{uri, ind, err}
Result(f, ind, err) == [uri |-> f, ind |-> ind, err |-> err]

NoRes == Result(NoFile, NilInd, "nil")

\* What opening, seeking and rewinding one request's handle may come to.
\* "close": everything went well and then rsc.Close() failed.
Outcomes == {"nil", "open", "rewind", "close"}

WaitGroupDoneEarly(pcs) == TRUE

\* wg.Wait() returns: every goroutine of the group has called wg.Done(),
\* which each defers to its return.
WaitGroupDone(pcs) == \A i \in DOMAIN pcs : pcs[i].pc = "done"

InitPipe ==
    /\ scenario = "pipe"
    /\ BufIdle
    /\ LibIdle
    /\ RepoIdle
    /\ StreamIdle
    /\ scanners = [r \in Roots |-> [pc |-> "scan", next |-> 1]]
    /\ requests = <<>>
    /\ results = <<>>
    /\ closed = [requests |-> FALSE, results |-> FALSE]
    /\ indWorkers = [w \in Workers |-> [pc |-> "recv", req |-> NoFile, res |-> NoRes]]
    /\ pcRepo = "range"
    /\ pcMain = "readerWg.Wait"
    /\ ctxErr = FALSE
    /\ hist = [interrupted |-> FALSE, repoFailed |-> FALSE, panicked |-> FALSE,
               taken |-> [f \in Files |-> 0],
               persisted |-> [f \in Files |-> 0],
               setCalls |-> [f \in Files |-> 0]]

Running == scenario = "pipe" /\ ~hist.panicked

\* scanLocalFiles: uris <- indicationRequest{...} for the next file.  The
\* send waits for room in the channel and for nothing else.
ScanSend(r) ==
    /\ Running
    /\ scanners[r].pc = "scan"
    /\ scanners[r].next <= FilesOf[r]
    /\ IF closed.requests
       THEN /\ hist' = [hist EXCEPT !.panicked = TRUE]
            /\ UNCHANGED <<scanners, requests>>
       ELSE /\ Len(requests) < ReqCap
            /\ requests' = Append(requests, <<r, scanners[r].next>>)
            /\ scanners' = [scanners EXCEPT ![r].next = @ + 1]
            /\ UNCHANGED hist
    /\ UNCHANGED <<scenario, streamVars, bufVars, libVars, repoVars>>
    /\ UNCHANGED <<results, closed, indWorkers, pcRepo, pcMain, ctxErr>>

\* scanLocalFiles: Readdir returns io.EOF; readerWg.Done()
ScanReturn(r) ==
    /\ Running
    /\ scanners[r].pc = "scan"
    /\ scanners[r].next > FilesOf[r]
    /\ scanners' = [scanners EXCEPT ![r].pc = "done"]
    /\ UNCHANGED <<scenario, streamVars, bufVars, libVars, repoVars>>
    /\ UNCHANGED <<requests, results, closed, indWorkers, pcRepo, pcMain, ctxErr, hist>>

\* scanReadSeekClosers: "for req := range requests" receives a request;
\* with the context done the worker prepares its last result.
WorkerRecv(w) ==
    /\ Running
    /\ indWorkers[w].pc = "recv"
    /\ requests # <<>>
    /\ requests' = Tail(requests)
    /\ indWorkers' = [indWorkers EXCEPT ![w] =
            IF ctxErr
            THEN [pc |-> "sendLast", req |-> Head(requests),
                  res |-> Result(Head(requests), NilInd, "canceled")]
            ELSE [pc |-> "indicate", req |-> Head(requests), res |-> NoRes]]
    /\ hist' = [hist EXCEPT !.taken[Head(requests)] = @ + 1]
    /\ UNCHANGED <<scenario, streamVars, bufVars, libVars, repoVars>>
    /\ UNCHANGED <<scanners, results, closed, pcRepo, pcMain, ctxErr>>

\* scanReadSeekClosers: the range ends on the closed, drained channel;
\* indicatorWg.Done()
WorkerReturn(w) ==
    /\ Running
    /\ indWorkers[w].pc = "recv"
    /\ requests = <<>>
    /\ closed.requests
    /\ indWorkers' = [indWorkers EXCEPT ![w].pc = "done"]
    /\ UNCHANGED <<scenario, streamVars, bufVars, libVars, repoVars>>
    /\ UNCHANGED <<scanners, requests, results, closed, pcRepo, pcMain, ctxErr, hist>>

RECURSIVE IndicateAll(_, _, _)
IndicateAll(kinds, src, b) ==
    IF kinds = <<>> THEN b
    ELSE IndicateAll(Tail(kinds), src, LeafIndicate(Head(kinds), src, b))

\* scanReadSeekClosers: the function literal that computes ind and err of
\* one request.  An indicator writing through a nil *Indication panics.
WorkerIndicate(w) ==
    /\ Running
    /\ indWorkers[w].pc = "indicate"
    /\ \E got \in NewIndication(pool), outcome \in Outcomes :
        LET f == indWorkers[w].req
            panics == got.item.nil /\ outcome # "open"
            ind == Ptr(IndicateAll(PipeIndicators, FileSrc(f), got.item.buf))
        IN
        /\ pool' = got.pool
        /\ hist' = [hist EXCEPT !.panicked = panics]
        /\ indWorkers' =
                IF panics THEN indWorkers
                ELSE [indWorkers EXCEPT
                        ![w].pc = "send",
                        ![w].res = IF outcome = "nil" THEN Result(f, ind, "nil")
                                   ELSE IF outcome = "close"
                                   THEN Result(f, ind, "close")
                                   ELSE Result(f, NilInd, outcome)]
    /\ UNCHANGED <<scenario, streamVars, bufVars, repoVars>>
    /\ UNCHANGED <<held, irs, call, callRes, acquired, nCalls, nNews>>
    /\ UNCHANGED <<scanners, requests, results, closed, pcRepo, pcMain, ctxErr>>

\* scanReadSeekClosers: results <- res; after the result of a request taken
\* with the context done the worker returns.
WorkerSend(w) ==
    /\ Running
    /\ indWorkers[w].pc \in {"send", "sendLast"}
    /\ IF closed.results
       THEN /\ hist' = [hist EXCEPT !.panicked = TRUE]
            /\ UNCHANGED <<results, indWorkers>>
       ELSE /\ Len(results) < ResCap
            /\ results' = Append(results, indWorkers[w].res)
            /\ indWorkers' = [indWorkers EXCEPT ![w] =
                    [pc |-> IF @.pc = "send" THEN "recv" ELSE "done",
                     req |-> NoFile, res |-> NoRes]]
            /\ UNCHANGED hist
    /\ UNCHANGED <<scenario, streamVars, bufVars, libVars, repoVars>>
    /\ UNCHANGED <<scanners, requests, closed, pcRepo, pcMain, ctxErr>>

\* The repository goroutine: one turn of "for res := range results".
\* setOK: whether r.SetIndications returned nil.
RepoPersist ==
    /\ Running
    /\ pcRepo = "range"
    /\ results # <<>>
    /\ results' = Tail(results)
    /\ LET res == Head(results) IN
        IF res.err # "nil"
        THEN /\ pool' = PutIndication(pool, res.ind)
             /\ hist' = [hist EXCEPT !.persisted[res.uri] = @ + 1]
             /\ UNCHANGED <<pcRepo, ctxErr>>
        ELSE \E setOK \in BOOLEAN :
             IF setOK
             THEN /\ pool' = PutIndication(pool, res.ind)
                  /\ hist' = [hist EXCEPT !.persisted[res.uri] = @ + 1,
                                          !.setCalls[res.uri] = @ + 1]
                  /\ UNCHANGED <<pcRepo, ctxErr>>
             ELSE /\ ctxErr' = TRUE
                  /\ pcRepo' = "done"
                  /\ hist' = [hist EXCEPT !.persisted[res.uri] = @ + 1,
                                          !.setCalls[res.uri] = @ + 1,
                                          !.repoFailed = TRUE]
                  /\ UNCHANGED pool
    /\ UNCHANGED <<scenario, streamVars, bufVars, repoVars>>
    /\ UNCHANGED <<held, irs, call, callRes, acquired, nCalls, nNews>>
    /\ UNCHANGED <<scanners, requests, closed, indWorkers, pcMain>>

\* The repository goroutine: the range ends; close(repoCh)
RepoReturn ==
    /\ Running
    /\ pcRepo = "range"
    /\ results = <<>>
    /\ closed.results
    /\ pcRepo' = "done"
    /\ UNCHANGED <<scenario, streamVars, bufVars, libVars, repoVars>>
    /\ UNCHANGED <<scanners, requests, results, closed, indWorkers, pcMain, ctxErr, hist>>

\* main2: readerWg.Wait(); close(requests)
MainCloseRequests ==
    /\ Running
    /\ pcMain = "readerWg.Wait"
    /\ WaitGroupDone(scanners)
    /\ closed' = [closed EXCEPT !.requests = TRUE]
    /\ pcMain' = "indicatorWg.Wait"
    /\ UNCHANGED <<scenario, streamVars, bufVars, libVars, repoVars>>
    /\ UNCHANGED <<scanners, requests, results, indWorkers, pcRepo, ctxErr, hist>>

\* main2: indicatorWg.Wait(); close(results)
MainCloseResults ==
    /\ Running
    /\ pcMain = "indicatorWg.Wait"
    /\ WaitGroupDone(indWorkers)
    /\ closed' = [closed EXCEPT !.results = TRUE]
    /\ pcMain' = "<-repoCh"
    /\ UNCHANGED <<scenario, streamVars, bufVars, libVars, repoVars>>
    /\ UNCHANGED <<scanners, requests, results, indWorkers, pcRepo, ctxErr, hist>>

\* main2: <-repoCh; return nil (and the deferred cancel)
MainReturn ==
    /\ Running
    /\ pcMain = "<-repoCh"
    /\ pcRepo = "done"
    /\ pcMain' = "returned"
    /\ ctxErr' = TRUE
    /\ UNCHANGED <<scenario, streamVars, bufVars, libVars, repoVars>>
    /\ UNCHANGED <<scanners, requests, results, closed, indWorkers, pcRepo, hist>>

\* os.Interrupt reaches signal.NotifyContext: the context is done.
Interrupt ==
    /\ Running
    /\ pcMain # "returned"
    /\ ~hist.interrupted
    /\ ctxErr' = TRUE
    /\ hist' = [hist EXCEPT !.interrupted = TRUE]
    /\ UNCHANGED <<scenario, streamVars, bufVars, libVars, repoVars>>
    /\ UNCHANGED <<scanners, requests, results, closed, indWorkers, pcRepo, pcMain>>

NextPipe ==
    \/ \E r \in Roots : ScanSend(r)
    \/ \E r \in Roots : ScanReturn(r)
    \/ \E w \in Workers : WorkerRecv(w)
    \/ \E w \in Workers : WorkerReturn(w)
    \/ \E w \in Workers : WorkerIndicate(w)
    \/ \E w \in Workers : WorkerSend(w)
    \/ RepoPersist
    \/ RepoReturn
    \/ MainCloseRequests
    \/ MainCloseResults
    \/ MainReturn
    \/ Interrupt

SpecPipe == InitPipe /\ [][NextPipe]_vars

\* The Go scheduler runs every goroutine that can take a step; the signal
\* is the environment's to send or not.
FairPipe ==
    /\ InitPipe
    /\ [][NextPipe]_vars
    /\ \A r \in Roots : WF_vars(ScanSend(r)) /\ WF_vars(ScanReturn(r))
    /\ \A w \in Workers : /\ WF_vars(WorkerRecv(w)) /\ WF_vars(WorkerReturn(w))
                          /\ WF_vars(WorkerIndicate(w)) /\ WF_vars(WorkerSend(w))
    /\ WF_vars(RepoPersist) /\ WF_vars(RepoReturn)
    /\ WF_vars(MainCloseRequests) /\ WF_vars(MainCloseResults) /\ WF_vars(MainReturn)

\* ------------------------------------------------------------------------
\* Leaf scenario: one Indicate call of a leaf indicator on one reader,
\* read by read, with a context that may be cancelled at any moment
\* ------------------------------------------------------------------------

LeafSrcInputs == {<<>>, <<2, 1>>, <<5, 6, 7>>}

LeafBufInputs == {<<>>, IndWrite(<<>>, <<3>>, <<4>>)}

LeafReaderInputs ==
    {ReaderOf(cap, src, pos, errAt) :
        cap \in ReaderCaps, src \in LeafSrcInputs, pos \in 0..1, errAt \in {-1, 2}}

InitLeaf ==
    /\ scenario = "leaf"
    /\ BufIdle
    /\ LibIdle
    /\ RepoIdle
    /\ PipeIdle
    /\ tee = NoTee
    /\ conv = NoConv
    /\ fan = NoFan
    /\ \E kind \in IndicatorKinds, rd \in LeafReaderInputs, b \in LeafBufInputs :
        /\ rd.pos <= Len(rd.src)
        /\ leaf = LeafCallOf(kind, rd, b)

LeafUnchanged ==
    UNCHANGED <<scenario, bufVars, libVars, repoVars, pipeVars, tee, conv, fan>>

\* The call begins: a hash copies the reader into the hasher; the length
\* indicator asks the reader for its length where the reader can tell it.
LeafStart ==
    /\ scenario = "leaf"
    /\ leaf.pc = "start"
    /\ IF leaf.kind # "length" \/ leaf.rd.cap = "Reader"
       THEN leaf' = [leaf EXCEPT !.pc = "read"]
       ELSE \E got \in LengthOfCap(leaf.rd) :
            leaf' = IF got.err # "nil" THEN LeafFail(leaf, got.err)
                    ELSE [leaf EXCEPT !.pc = "done", !.n = got.n,
                            !.out = LeafWrites("length", got.n, <<>>, leaf.out)]
    /\ LeafUnchanged

\* io.Copy: src.Read
LeafRead ==
    /\ scenario = "leaf"
    /\ leaf.pc = "read"
    /\ leaf' = readerContextRead(leaf)
    /\ LeafUnchanged

\* io.Copy: dst.Write
LeafWrite ==
    /\ scenario = "leaf"
    /\ leaf.pc = "write"
    /\ leaf' = writerContextWrite(leaf)
    /\ LeafUnchanged

\* After the copy: ind.Write of the entries
LeafSum ==
    /\ scenario = "leaf"
    /\ leaf.pc = "sum"
    /\ leaf' = [leaf EXCEPT !.pc = "done",
                            !.out = LeafWrites(leaf.kind, leaf.n, leaf.h, leaf.out)]
    /\ LeafUnchanged

\* The context given to Indicate is cancelled.
LeafCancel ==
    /\ scenario = "leaf"
    /\ leaf.pc # "done"
    /\ ~leaf.ctxDone
    /\ leaf' = [leaf EXCEPT !.ctxDone = TRUE]
    /\ LeafUnchanged

NextLeaf ==
    \/ LeafStart
    \/ LeafRead
    \/ LeafWrite
    \/ LeafSum
    \/ LeafCancel

SpecLeaf == InitLeaf /\ [][NextLeaf]_vars

\* ------------------------------------------------------------------------
\* Tee scenario: one Indicate call on a Composite, read by read.  Lane 1
\* reads the source through the tee; every other lane reads its pipe.
\* ------------------------------------------------------------------------

\* io.Pipe(): the bytes of the Write in progress that are not read yet, and
\* which ends are closed.
NewPipe == [pending |-> <<>>, wclosed |-> FALSE, rclosed |-> FALSE]

TeeIrsInputs ==
    {<<"length">>, <<"crc32", "sha256">>, <<"sha256", "length", "crc32">>}

TeeReaderInputs ==
    {ReaderOf("Reader", src, 0, errAt) :
        src \in LeafSrcInputs, errAt \in {-1, 0, 2}}

\* Indicators.Indicate up to "ch <- reqs[i]": each lane has its request,
\* with an Indication of its own (the pool is empty: a first call).
InitTee ==
    /\ scenario = "tee"
    /\ BufIdle
    /\ LibIdle
    /\ RepoIdle
    /\ PipeIdle
    /\ leaf = NoLeaf
    /\ conv = NoConv
    /\ fan = NoFan
    /\ \E kinds \in TeeIrsInputs, rd \in TeeReaderInputs, b \in LeafBufInputs :
        tee = [pc |-> "wg0.Wait",
               kinds |-> kinds,
               lanes |-> [i \in 1..Len(kinds) |->
                            [LeafCallOf(kinds[i], rd, PoolNew.buf)
                                EXCEPT !.pc = "read"]],
               pipes |-> [i \in 1..Len(kinds) |-> NewPipe],
               k |-> 0,
               ctxDone |-> FALSE,
               out |-> b, before |-> b, errs |-> <<>>]

TeeUnchanged ==
    UNCHANGED <<scenario, bufVars, libVars, repoVars, pipeVars, leaf, conv, fan>>

NLanes == Len(tee.kinds)

\* The lane worker after Indicate has returned: a lane behind a pipe closes
\* its reading end; req.wg.Done().
LaneDone(i, l) ==
    /\ l.pc = "done"
    /\ tee' = [tee EXCEPT !.lanes[i] = l,
                          !.pipes[i].rclosed = (i > 1) \/ @]

LaneGoesOn(i, l) ==
    /\ l.pc # "done"
    /\ tee' = [tee EXCEPT !.lanes[i] = l]

LaneBecomes(i, l) == LaneDone(i, l) \/ LaneGoesOn(i, l)

\* Lane 1, io.Copy: readerContext.Read, then teeReader.Read on the source.
\* With bytes read the tee turns to the pipes, if there are any.
TeeRead ==
    /\ scenario = "tee"
    /\ tee.lanes[1].pc = "read"
    /\ LET l == readerContextRead(tee.lanes[1]) IN
        IF l.pc = "write" /\ NLanes > 1
        THEN tee' = [tee EXCEPT !.lanes[1] = [l EXCEPT !.pc = "tee"], !.k = 2]
        ELSE LaneBecomes(1, l)
    /\ TeeUnchanged

\* Lane 1, io.MultiWriter: the Write on the pipe of lane tee.k begins.  On
\* a pipe whose reading end is closed it fails with io.ErrClosedPipe; the
\* copy still hands the bytes to the hasher and then returns the error.
TeeWriteBegin ==
    /\ scenario = "tee"
    /\ tee.lanes[1].pc = "tee"
    /\ IF tee.pipes[tee.k].rclosed
       THEN LaneBecomes(1, LeafFail(tee.lanes[1],
                IF tee.ctxDone THEN "canceled" ELSE "closedPipe"))
       ELSE tee' = [tee EXCEPT !.lanes[1].pc = "teeWait",
                               !.pipes[tee.k].pending = tee.lanes[1].chunk]
    /\ TeeUnchanged

PipeWrittenAtOnce(p) == TRUE

\* PipeWriter.Write returns nil once every byte it was given has been read:
\* an io.Pipe has no buffer of its own.
PipeWritten(p) == p.pending = <<>>

\* Lane 1, io.MultiWriter: the Write on the pipe returns, once its bytes
\* are read or the reading end is closed.
TeeWriteEnd ==
    /\ scenario = "tee"
    /\ tee.lanes[1].pc = "teeWait"
    /\ \/ /\ PipeWritten(tee.pipes[tee.k])
          /\ tee' = IF tee.k < NLanes
                    THEN [tee EXCEPT !.lanes[1].pc = "tee", !.k = @ + 1]
                    ELSE [tee EXCEPT !.lanes[1].pc = "write"]
       \/ /\ tee.pipes[tee.k].pending # <<>>
          /\ tee.pipes[tee.k].rclosed
          /\ LaneBecomes(1, LeafFail(tee.lanes[1],
                IF tee.ctxDone THEN "canceled" ELSE "closedPipe"))
    /\ TeeUnchanged

\* A lane behind a pipe, io.Copy: readerContext.Read looks at the context
\* and then waits in PipeReader.Read.
PipeReadBegin(i) ==
    /\ scenario = "tee"
    /\ i \in 2..NLanes
    /\ tee.lanes[i].pc = "read"
    /\ IF tee.ctxDone
       THEN LaneBecomes(i, [LeafFail(tee.lanes[i], "canceled") EXCEPT !.observed = TRUE])
       ELSE tee' = [tee EXCEPT !.lanes[i].pc = "recv"]
    /\ TeeUnchanged

\* A lane behind a pipe: PipeReader.Read returns the bytes of the Write in
\* progress, or io.EOF once the writing end is closed.
PipeReadEnd(i) ==
    /\ scenario = "tee"
    /\ i \in 2..NLanes
    /\ tee.lanes[i].pc = "recv"
    /\ \/ /\ tee.pipes[i].pending # <<>>
          /\ tee' = [tee EXCEPT !.lanes[i].pc = "write",
                                !.lanes[i].chunk = tee.pipes[i].pending,
                                !.pipes[i].pending = <<>>]
       \/ /\ tee.pipes[i].pending = <<>>
          /\ tee.pipes[i].wclosed
          /\ tee' = [tee EXCEPT !.lanes[i].pc = "sum"]
    /\ TeeUnchanged

\* Any lane, io.Copy: writerContext.Write to the hasher or to io.Discard.
LaneWrite(i) ==
    /\ scenario = "tee"
    /\ i \in 1..NLanes
    /\ tee.lanes[i].pc = "write"
    /\ LaneBecomes(i, writerContextWrite(tee.lanes[i]))
    /\ TeeUnchanged

\* Any lane, after the copy: ind.Write of the entries; Indicate returns nil.
LaneSum(i) ==
    /\ scenario = "tee"
    /\ i \in 1..NLanes
    /\ tee.lanes[i].pc = "sum"
    /\ LaneBecomes(i, [tee.lanes[i] EXCEPT
            !.pc = "done",
            !.out = LeafWrites(tee.lanes[i].kind, tee.lanes[i].n,
                               tee.lanes[i].h, tee.lanes[i].out)])
    /\ TeeUnchanged

\* Indicators.Indicate: wg0.Wait() returns; every pipe's writing end is
\* closed.
TeeCloseWriters ==
    /\ scenario = "tee"
    /\ tee.pc = "wg0.Wait"
    /\ tee.lanes[1].pc = "done"
    /\ tee' = [tee EXCEPT !.pc = "wg1.Wait",
                          !.pipes = [i \in 1..NLanes |-> [tee.pipes[i] EXCEPT !.wclosed = TRUE]]]
    /\ TeeUnchanged

\* Indicators.Indicate: wg1.Wait() returns; the lanes are merged into the
\* caller's Indication and the errors aggregated.
TeeMerge ==
    /\ scenario = "tee"
    /\ tee.pc = "wg1.Wait"
    /\ \A i \in 1..NLanes : tee.lanes[i].pc = "done"
    /\ LET st == MergeLanes(
                    [i \in 1..NLanes |-> [err |-> tee.lanes[i].err,
                                          ind |-> Ptr(tee.lanes[i].out)]],
                    [visited |-> {}, out |-> tee.out, errs |-> <<>>, panic |-> FALSE])
       IN tee' = [tee EXCEPT !.pc = "returned", !.out = st.out, !.errs = st.errs]
    /\ TeeUnchanged

\* The context given to Indicate is cancelled.
TeeCancel ==
    /\ scenario = "tee"
    /\ tee.pc # "returned"
    /\ ~tee.ctxDone
    /\ tee' = [tee EXCEPT !.ctxDone = TRUE,
                          !.lanes = [i \in 1..NLanes |-> [tee.lanes[i] EXCEPT !.ctxDone = TRUE]]]
    /\ TeeUnchanged

NextTee ==
    \/ TeeRead
    \/ TeeWriteBegin
    \/ TeeWriteEnd
    \/ \E i \in 2..NLanes : PipeReadBegin(i)
    \/ \E i \in 2..NLanes : PipeReadEnd(i)
    \/ \E i \in 1..NLanes : LaneWrite(i)
    \/ \E i \in 1..NLanes : LaneSum(i)
    \/ TeeCloseWriters
    \/ TeeMerge
    \/ TeeCancel

SpecTee == InitTee /\ [][NextTee]_vars

\* ------------------------------------------------------------------------
\* Fan scenario: several callers call Indicate on one Composite, whose
\* lane goroutines take the requests from unbuffered channels
\* ------------------------------------------------------------------------

Callers == 1..NCallers

\* A caller outside a call, or in one: sending reqs[i], or waiting.
FanCaller(pc, left, calls) ==
    [pc |-> pc, i |-> 1, left |-> left, calls |-> calls, early |-> FALSE]

\* The goroutine of lane i in "for req := range idrs.reqs[i]".
FanIdle == [pc |-> "idle", req |-> 0]

\* NewIndicators(irs...) has returned a Composite of n lanes and no caller
\* has called it yet.
InitFan ==
    /\ scenario = "fan"
    /\ BufIdle
    /\ LibIdle
    /\ RepoIdle
    /\ PipeIdle
    /\ leaf = NoLeaf
    /\ tee = NoTee
    /\ conv = NoConv
    /\ \E n \in 1..MaxLanes :
        fan = [n |-> n,
               callers |-> [c \in Callers |-> FanCaller("idle", 0, 0)],
               workers |-> [i \in 1..n |-> FanIdle],
               pipes |-> [c \in Callers |-> [i \in 1..n |-> NewPipe]],
               k |-> [c \in Callers |-> 0],
               done |-> [c \in Callers |-> [i \in 1..n |-> FALSE]]]

FanUnchanged ==
    UNCHANGED <<scenario, bufVars, libVars, repoVars, pipeVars, leaf, tee, conv>>

\* Indicators.Indicate begins, on a source of some blocks: the wait groups,
\* the requests and a pipe for every lane after the first.
FanIndicate(c) ==
    /\ scenario = "fan"
    /\ fan.callers[c].pc \in {"idle", "returned"}
    /\ fan.callers[c].calls < MaxFanCalls
    /\ \E left \in 0..MaxBlocks :
        fan' = [fan EXCEPT
                    !.callers[c] = FanCaller("send", left, fan.callers[c].calls + 1),
                    !.pipes[c] = [i \in 1..fan.n |-> NewPipe],
                    !.k[c] = 0,
                    !.done[c] = [i \in 1..fan.n |-> FALSE]]
    /\ FanUnchanged

\* "ch <- reqs[i]" meets "for req := range idrs.reqs[i]": the channel has
\* no buffer, so the caller goes on when the lane's goroutine, between two
\* requests, takes the request.
FanSend(c) ==
    /\ scenario = "fan"
    /\ fan.callers[c].pc = "send"
    /\ LET i == fan.callers[c].i IN
        /\ fan.workers[i].pc = "idle"
        /\ fan' = [fan EXCEPT
                    !.workers[i] = [pc |-> "read", req |-> c],
                    !.callers[c].i = i + 1,
                    !.callers[c].pc = IF i = fan.n THEN "wg0.Wait" ELSE "send"]
    /\ FanUnchanged

ClosesNoPipeReader(i) == FALSE

\* "if i > 0 { req.r.(*io.PipeReader).Close() }", lanes counted from 1 here.
ClosesPipeReader(i) == i > 1

\* The lane's Indicate has returned: the goroutine closes the reading end
\* of its pipe, calls req.wg.Done() and turns to the next request.
FanLaneReturns(i) ==
    LET c == fan.workers[i].req IN
    [fan EXCEPT !.workers[i] = FanIdle,
                !.pipes[c][i].rclosed = ClosesPipeReader(i) \/ @,
                !.done[c][i] = TRUE]

\* The first lane, io.Copy: a Read of the tee reads the source: at its end
\* the child returns; with a block read the tee turns to the pipes, if
\* there are any.
FanTeeRead ==
    /\ scenario = "fan"
    /\ fan.workers[1].pc = "read"
    /\ LET c == fan.workers[1].req IN
        fan' = IF fan.callers[c].left = 0 THEN FanLaneReturns(1)
               ELSE [fan EXCEPT !.callers[c].left = @ - 1,
                                !.workers[1].pc = IF fan.n > 1 THEN "tee" ELSE "read",
                                !.k[c] = 2]
    /\ FanUnchanged

\* The first lane, io.MultiWriter: the Write on the pipe of lane k begins;
\* on a pipe whose reading end is closed it fails and the child returns.
FanTeeWriteBegin ==
    /\ scenario = "fan"
    /\ fan.workers[1].pc = "tee"
    /\ LET c == fan.workers[1].req
           k == fan.k[c]
       IN fan' = IF fan.pipes[c][k].rclosed THEN FanLaneReturns(1)
                 ELSE [fan EXCEPT !.workers[1].pc = "teeWait",
                                  !.pipes[c][k].pending = <<0>>]
    /\ FanUnchanged

\* The first lane, io.MultiWriter: the Write on the pipe returns, once its
\* bytes are read or the reading end is closed.
FanTeeWriteEnd ==
    /\ scenario = "fan"
    /\ fan.workers[1].pc = "teeWait"
    /\ LET c == fan.workers[1].req
           k == fan.k[c]
       IN \/ /\ PipeWritten(fan.pipes[c][k])
             /\ fan' = IF k < fan.n
                       THEN [fan EXCEPT !.workers[1].pc = "tee", !.k[c] = k + 1]
                       ELSE [fan EXCEPT !.workers[1].pc = "read"]
          \/ /\ ~PipeWritten(fan.pipes[c][k])
             /\ fan.pipes[c][k].rclosed
             /\ fan' = FanLaneReturns(1)
    /\ FanUnchanged

\* A lane behind a pipe, io.Copy: the child calls Read on its pipe.
FanPipeReadBegin(i) ==
    /\ scenario = "fan"
    /\ i \in 2..fan.n
    /\ fan.workers[i].pc = "read"
    /\ fan' = [fan EXCEPT !.workers[i].pc = "recv"]
    /\ FanUnchanged

\* A lane behind a pipe: PipeReader.Read returns the bytes of the Write in
\* progress, or io.EOF once the writing end is closed, and then the child
\* returns.
FanPipeReadEnd(i) ==
    /\ scenario = "fan"
    /\ i \in 2..fan.n
    /\ fan.workers[i].pc = "recv"
    /\ LET c == fan.workers[i].req IN
        \/ /\ fan.pipes[c][i].pending # <<>>
           /\ fan' = [fan EXCEPT !.workers[i].pc = "read",
                                 !.pipes[c][i].pending = <<>>]
        \/ /\ fan.pipes[c][i].pending = <<>>
           /\ fan.pipes[c][i].wclosed
           /\ fan' = FanLaneReturns(i)
    /\ FanUnchanged

\* A child returns before the end of what it reads, between two Reads: the
\* source's Read failed, the context was cancelled, or the child stopped.
FanLaneFails(i) ==
    /\ scenario = "fan"
    /\ i \in 1..fan.n
    /\ fan.workers[i].pc = "read"
    /\ fan' = [FanLaneReturns(i) EXCEPT
                    !.callers[fan.workers[i].req].early = (i > 1) \/ @]
    /\ FanUnchanged

\* Indicators.Indicate: wg0.Wait() returns; every pipe's writing end is
\* closed.
FanCloseWriters(c) ==
    /\ scenario = "fan"
    /\ fan.callers[c].pc = "wg0.Wait"
    /\ fan.done[c][1]
    /\ fan' = [fan EXCEPT
                !.callers[c].pc = "wg1.Wait",
                !.pipes[c] = [i \in 1..fan.n |->
                                [fan.pipes[c][i] EXCEPT !.wclosed = TRUE]]]
    /\ FanUnchanged

\* Indicators.Indicate: wg1.Wait() returns; after the merge the call
\* returns.
FanReturn(c) ==
    /\ scenario = "fan"
    /\ fan.callers[c].pc = "wg1.Wait"
    /\ \A i \in 2..fan.n : fan.done[c][i]
    /\ fan' = [fan EXCEPT !.callers[c].pc = "returned"]
    /\ FanUnchanged

NextFan ==
    \/ \E c \in Callers : FanIndicate(c)
    \/ \E c \in Callers : FanSend(c)
    \/ FanTeeRead
    \/ FanTeeWriteBegin
    \/ FanTeeWriteEnd
    \/ \E i \in 2..MaxLanes : FanPipeReadBegin(i)
    \/ \E i \in 2..MaxLanes : FanPipeReadEnd(i)
    \/ \E i \in 1..MaxLanes : FanLaneFails(i)
    \/ \E c \in Callers : FanCloseWriters(c)
    \/ \E c \in Callers : FanReturn(c)

SpecFan == InitFan /\ [][NextFan]_vars

\* Every goroutine that can take a step takes one: the callers inside a
\* call and the lane goroutines.  No caller has to call, and no child has
\* to return early.
FairFan ==
    /\ SpecFan
    /\ \A c \in Callers :
        WF_vars(FanSend(c)) /\ WF_vars(FanCloseWriters(c)) /\ WF_vars(FanReturn(c))
    /\ WF_vars(FanTeeRead) /\ WF_vars(FanTeeWriteBegin) /\ WF_vars(FanTeeWriteEnd)
    /\ \A i \in 2..MaxLanes :
        WF_vars(FanPipeReadBegin(i)) /\ WF_vars(FanPipeReadEnd(i))

\* -- the conversion scenario: texts, URIs and local paths -------------------

\* "file", "ftp"
ConvSchemes == {FileScheme, <<102, 116, 112>>}

\* "", "h"
ConvHosts == {<<>>, <<104>>}

\* "", "/a", "o.t", "/a b", "/C:/d"
ConvPaths == {<<>>, <<47, 97>>, <<111, 46, 116>>, <<47, 97, 32, 98>>, <<47, 67, 58, 47, 100>>}

\* "", "x=1", "b=1&a=2", "x"
ConvQueries == {<<>>, <<120, 61, 49>>, <<98, 61, 49, 38, 97, 61, 50>>, <<120>>}

\* The texts URI.String gives: scheme ":" ["//" hostname] [path] ["?" query]
CanonicalTexts ==
    {URIString([Scheme |-> sc, Hostname |-> h, Path |-> pa, Query |-> q]) :
        sc \in ConvSchemes, h \in ConvHosts, pa \in ConvPaths, q \in ConvQueries}

FileURI(h, pa) == [Scheme |-> FileScheme, Hostname |-> h, Path |-> pa, Query |-> <<>>]

\* file:/a/b and file:/a
PosixFileURIs == {FileURI(<<>>, <<47, 97, 47, 98>>), FileURI(<<>>, <<47, 97>>)}

\* /a/b and /a
PosixPaths == {<<47, 97, 47, 98>>, <<47, 97>>}

\* file:///C:/d, file://h/C:/d, file://h/sh/f, and file://h/s, whose share
\* has a name of one letter
WindowsFileURIs ==
    {FileURI(<<>>, <<47, 67, 58, 47, 100>>), FileURI(<<104>>, <<47, 67, 58, 47, 100>>), FileURI(<<104>>, <<47, 115, 104, 47, 102>>), FileURI(<<104>>, <<47, 115>>)}

\* C:\d, \\h\C$\d, \\h\sh\f, the administrative share \\h\C$ itself, and
\* \\h\s, a share with a name of one letter
WindowsPaths == {<<67, 58, 92, 100>>, <<92, 92, 104, 92, 67, 36, 92, 100>>, <<92, 92, 104, 92, 115, 104, 92, 102>>, <<92, 92, 104, 92, 67, 36>>, <<92, 92, 104, 92, 115>>}

ConvOf(goos, kind, x) ==
    [goos |-> goos, from |-> kind, in |-> x, kind |-> kind, cur |-> x,
     ops |-> <<>>, err |-> "nil"]

InitConv ==
    /\ scenario = "conv"
    /\ BufIdle
    /\ LibIdle
    /\ RepoIdle
    /\ PipeIdle
    /\ leaf = NoLeaf
    /\ tee = NoTee
    /\ fan = NoFan
    /\ \E goos \in GOOS :
        \/ \E t \in CanonicalTexts \cup PosixPaths \cup WindowsPaths :
                conv = ConvOf(goos, "text", t)
        \/ \E u \in PosixFileURIs \cup WindowsFileURIs :
                conv = ConvOf(goos, "uri", u)

ConvUnchanged ==
    UNCHANGED <<scenario, bufVars, libVars, repoVars, pipeVars, leaf, tee, fan>>

ConvCan(kind) ==
    /\ scenario = "conv"
    /\ conv.kind = kind
    /\ conv.err = "nil"
    /\ Len(conv.ops) < MaxConvCalls

ConvBecomes(op, kind, x, err) ==
    conv' = [conv EXCEPT !.kind = kind, !.cur = x, !.err = err,
                         !.ops = Append(@, op)]

\* err := u.FromString(s)
CallFromString ==
    /\ ConvCan("text")
    /\ LET got == FromString(conv.cur) IN
       ConvBecomes("FromString", "uri", got.uri, got.err)
    /\ ConvUnchanged

\* s := u.String()
CallString ==
    /\ ConvCan("uri")
    /\ ConvBecomes("String", "text", URIString(conv.cur), "nil")
    /\ ConvUnchanged

\* s := filePathOf(u)
CallFilePathOf ==
    /\ ConvCan("uri")
    /\ ConvBecomes("filePathOf", "text", filePathOf(conv.goos, conv.cur), "nil")
    /\ ConvUnchanged

\* u := uriOfFilePath(s)
CallUriOfFilePath ==
    /\ ConvCan("text")
    /\ LET got == uriOfFilePath(conv.goos, conv.cur) IN
       ConvBecomes("uriOfFilePath", "uri", got.uri, got.err)
    /\ ConvUnchanged

NextConv ==
    \/ CallFromString
    \/ CallString
    \/ CallFilePathOf
    \/ CallUriOfFilePath

SpecConv == InitConv /\ [][NextConv]_vars

\* ------------------------------------------------------------------------
\* Properties of the Indication buffer, the pool and the Composite
\* ------------------------------------------------------------------------

\* First-writer-wins merge of a sequence of entries: an entry is kept when
\* no earlier entry has its key.
RECURSIVE FirstWriterWins(_, _)
FirstWriterWins(entries, seen) ==
    IF entries = <<>> THEN <<>>
    ELSE IF entries[1][1] \in seen THEN FirstWriterWins(Tail(entries), seen)
    ELSE <<entries[1]>> \o FirstWriterWins(Tail(entries), seen \cup {entries[1][1]})

\* The entries of the children kinds[1..n], each run alone over src into an
\* empty Indication, in child order.
RECURSIVE AloneEntries(_, _)
AloneEntries(kinds, src) ==
    IF kinds = <<>> THEN <<>>
    ELSE Entries(LeafIndicate(kinds[1], src, <<>>)) \o AloneEntries(Tail(kinds), src)

\* C1: every Indicate call on a Composite writes to the caller's Indication
\* the first-writer-wins merge, in child order, of the entries each child
\* produces when run alone over the same source: the same keys, and the same
\* value for each key.  This covers the later calls, whose lane buffers come
\* from the pool.
C1_CompositeIsFirstWriterWinsMerge ==
    callRes.status = "returned" =>
        /\ callRes.errs = <<>>
        /\ Range(callRes.entries)
            = Range(FirstWriterWins(AloneEntries(callRes.irs, callRes.src), {}))

\* C2: after Reset and the writes (k1, v1) .. (kn, vn), a new Reader returns
\* exactly these pairs in write order from successive Next calls, then
\* io.EOF, and nothing written before the Reset.
C2_ResetWriteRead ==
    (resetDone /\ rdr.last # "none") =>
        /\ rdr.last \in {"new", "nil", "EOF"}
        /\ IsPrefix(rdr.got, written)
        /\ rdr.last = "EOF" => rdr.got = written

\* C2's case: two entries, one with a key whose length takes two varint
\* bytes, one with an empty key and an empty value, read back to io.EOF.
C2_Witness ==
    /\ resetDone
    /\ rdr.last = "EOF"
    /\ Len(written) >= 2
    /\ written[1][1] = LongKey
    /\ written[2] = << <<>>, <<>> >>
    /\ rdr.got = written

\* C9: Indicate on a Composite after Close returns the indicator-closed
\* error: it does not panic and writes no entry.
C9_IndicateAfterCloseFails ==
    callRes.closed =>
        /\ callRes.status = "returned"
        /\ callRes.errs = <<"indicator-closed">>
        /\ callRes.entries = <<>>

\* C10: NewIndication always returns an empty Indication, whatever was
\* acquired, written and put back before.
C10_AcquireReturnsEmpty == ~acquired.nil /\ acquired.buf = <<>>

\* ------------------------------------------------------------------------
\* Properties of the repository
\* ------------------------------------------------------------------------

\* The (key, value) pairs the tables hold for the resource with this Uri.
StoredPairs(uriText) ==
    {<<jr[1].Key, jr[1].Value>> :
        jr \in {x \in Joined(resources, indications) : x[2].Uri = uriText}}

\* The query tree read over one resource's stored pairs.
RECURSIVE Satisfies(_, _)
Satisfies(q, pairs) ==
    IF q.type = "Indication" THEN \A e \in Range(Each(q.ind)) : e \in pairs
    ELSE IF q.type = "And"
    THEN Satisfies(q.args[1], pairs) /\ Satisfies(q.args[2], pairs)
    ELSE IF q.type = "Or"
    THEN Satisfies(q.args[1], pairs) \/ Satisfies(q.args[2], pairs)
    ELSE FALSE

\* C3: Indications(u), called once SetIndications(u, ind) has been called
\* (calls on other URIs may lie in between), returns exactly the
\* key -> value mapping of the ind last given for u: every pair of it and
\* no pair of another resource.
C3_IndicationsReturnsWhatWasSet ==
    (repoOp.op = "Indications" /\ lastSet[repoOp.uri].set)
        => repoOp.result = lastSet[repoOp.uri].lu

\* C4: URIs(query) returns the URIs of exactly the resources whose stored
\* pairs satisfy the query tree, each of them once.
C4_URIsReturnsExactlyTheMatching ==
    (repoOp.op = "URIs" /\ repoOp.err = <<>>)
        => repoOp.result =
            SetToBag({FromString(r.Uri).uri :
                        r \in {x \in resources :
                                Satisfies(repoOp.ind, StoredPairs(x.Uri))}})

C6_PipelineCompletes ==
    [](~hist.interrupted /\ ~hist.repoFailed)
        => <>(/\ pcMain = "returned"
              /\ \A f \in Files : /\ hist.taken[f] = 1
                                  /\ hist.persisted[f] = 1
                                  /\ hist.setCalls[f] <= 1)

\* C7: once an interrupt has cancelled the context, main2 returns in the
\* end (a run that a panic ended is not held against this).
C7_InterruptShutsDown ==
    hist.interrupted ~> (pcMain = "returned" \/ hist.panicked)

\* C8: in a run without interrupt, once SetIndications has failed in the
\* repository goroutine, main2 returns in the end (a run that a panic ended
\* is not held against this).
C8_RepoFailureShutsDown ==
    [](~hist.interrupted)
        => (hist.repoFailed ~> (pcMain = "returned" \/ hist.panicked))

\* ------------------------------------------------------------------------
\* Properties of the leaf indicators
\* ------------------------------------------------------------------------

\* C11: a leaf Indicate call in which a Read or a Write saw the cancelled
\* context returns the cancellation error and leaves the output Indication
\* as it was before the call.
C11_CancelledLeafWritesNothing ==
    (leaf.pc = "done" /\ leaf.observed)
        => (leaf.err = "canceled" /\ leaf.out = leaf.before)

\* C11: a hash indicator had copied part of the source when a later Read or
\* Write saw the cancelled context, and the call has returned.
C11_Witness ==
    /\ leaf.pc = "done"
    /\ leaf.observed
    /\ leaf.kind # "length"
    /\ leaf.n > 0
    /\ leaf.before # <<>>

\* C15: a HashAndLength call that returns without error over the n bytes
\* between the reader's position and its end has appended two entries, in
\* this order: ("length", n as 8 bytes big-endian) and (key, digest of
\* those n bytes), the digest 4 bytes long for crc32 and 32 for sha256.
C15_HashAndLengthEntries ==
    (leaf.pc = "done" /\ leaf.err = "nil" /\ leaf.kind # "length")
        => LET n == Len(leaf.rd.src) - leaf.start
               data == Slice(leaf.rd.src, leaf.start, Len(leaf.rd.src))
               es == Entries(leaf.out)
               m == Len(Entries(leaf.before))
           IN /\ Len(es) = m + 2
              /\ SubSeq(es, 1, m) = Entries(leaf.before)
              /\ es[m + 1] = <<lengthIndicatorKey,
                               [i \in 1..8 |-> IF i = 8 THEN n ELSE 0]>>
              /\ es[m + 2][1] = (IF leaf.kind = "crc32" THEN crc32Key ELSE sha256Key)
              /\ es[m + 2][2] = HashSum(Len(es[m + 2][2]), data)
              /\ Len(es[m + 2][2]) = (IF leaf.kind = "crc32" THEN 4 ELSE 32)

\* C15: a crc32 call over three bytes, read in two blocks, has returned
\* without error on an Indication that already held an entry.
C15_Witness ==
    /\ leaf.pc = "done"
    /\ leaf.err = "nil"
    /\ leaf.kind = "crc32"
    /\ leaf.n = 3
    /\ leaf.before # <<>>

\* ------------------------------------------------------------------------
\* Properties of one Composite call, read by read
\* ------------------------------------------------------------------------

FailedLanes == {i \in 1..NLanes : tee.lanes[i].err # "nil"}

\* The entries of the lanes that returned without error, in lane order.
RECURSIVE EntriesOfLanes(_)
EntriesOfLanes(i) ==
    IF i > NLanes THEN <<>>
    ELSE (IF tee.lanes[i].err = "nil" THEN Entries(tee.lanes[i].out) ELSE <<>>)
            \o EntriesOfLanes(i + 1)

\* C12: a Composite call in which lanes failed returns the error of every
\* failing lane, each once, and its output holds what it held before
\* followed by the first-writer-wins merge of the entries of the lanes that
\* returned without error.
C12_LaneErrorsAggregated ==
    (tee.pc = "returned" /\ FailedLanes # {})
        => /\ Len(tee.errs) = Cardinality(FailedLanes)
           /\ \A e \in {tee.lanes[i].err : i \in FailedLanes} :
                Cardinality({j \in 1..Len(tee.errs) : tee.errs[j] = e})
                    = Cardinality({i \in FailedLanes : tee.lanes[i].err = e})
           /\ Entries(tee.out)
                = Entries(tee.before) \o FirstWriterWins(EntriesOfLanes(1), {})

\* C12: a call has returned in which two lanes failed with different
\* errors and a third lane returned entries.
C12_Witness ==
    /\ tee.pc = "returned"
    /\ \E i, j \in FailedLanes : tee.lanes[i].err # tee.lanes[j].err
    /\ \E i \in 1..NLanes : tee.lanes[i].err = "nil" /\ tee.lanes[i].out # <<>>

\* C20: in a Composite call that has returned, every lane that returned
\* without error was given the whole byte sequence of the source, in order;
\* also when another lane failed, the source failed part-way, or the
\* context was cancelled.
C20_SuccessMeansWholeSource ==
    tee.pc = "returned"
        => \A i \in 1..NLanes :
            tee.lanes[i].err = "nil" => tee.lanes[i].h = tee.lanes[i].rd.src

\* C13: a SetIndications call that returned an error has left the Resource
\* and the Indication table exactly as they were before the call, and a call
\* that returned without error has left the URI with exactly its new set of
\* indications.
C13_FailedSetIndicationsRollsBack ==
    /\ (repoOp.op = "SetIndications" /\ repoOp.err # <<>>)
            => <<resources, indications>> = repoOp.before
    /\ (repoOp.op = "SetIndications" /\ repoOp.err = <<>>)
            => StoredPairs(repoOp.uri) = Lookup(repoOp.ind)

\* C13: a call has failed while saving its new rows, after it had deleted
\* rows and saved one new row inside the transaction.
C13_Witness ==
    /\ repoOp.op = "SetIndications"
    /\ repoOp.err = <<"saveInd">>
    /\ repoOp.deleted # {}
    /\ repoOp.inserted # {}

\* C14: the Indication table never holds two rows with the same resource
\* and the same key.
C14_OneRowPerResourceAndKey ==
    \A r1, r2 \in indications :
        (r1.ResourceID = r2.ResourceID /\ r1.Key = r2.Key) => r1 = r2

\* C14: a SetIndications call has replaced a resource's row by a row with
\* the same key and another value, next to a row it left alone.
C14_Witness ==
    /\ repoOp.op = "SetIndications"
    /\ repoOp.err = <<>>
    /\ \E d \in repoOp.deleted, i \in repoOp.inserted : d.Key = i.Key
    /\ \E row \in indications :
        /\ row.ResourceID \in {i.ResourceID : i \in repoOp.inserted}
        /\ row \notin repoOp.inserted

\* The query tree holds a node that is neither AND, OR nor an Indication
\* leaf.
RECURSIVE HasUnsupported(_)
HasUnsupported(q) ==
    IF q.type = "Indication" THEN FALSE
    ELSE IF q.type \in {"And", "Or"}
    THEN HasUnsupported(q.args[1]) \/ HasUnsupported(q.args[2])
    ELSE TRUE

\* C17: URIs on a query tree that holds a node other than a binary AND, a
\* binary OR or an Indication leaf returns an error and no URI.
C17_UnsupportedQueryFails ==
    (repoOp.op = "URIs" /\ HasUnsupported(repoOp.ind))
        => (repoOp.err # <<>> /\ repoOp.result = EmptyBag)

\* C17: URIs was called with a node of three operands while the tables
\* held rows.
C17_Witness ==
    /\ repoOp.op = "URIs"
    /\ repoOp.ind.type = "Other"
    /\ Len(repoOp.ind.args) = 3
    /\ Joined(resources, indications) # {}

\* ------------------------------------------------------------------------
\* Properties of the reader over a buffer of any bytes
\* ------------------------------------------------------------------------

\* The slice at idx has a whole length prefix and as many bytes after it as
\* the prefix announces: the index after it, or -1.
SliceEnd(b, idx) ==
    LET l == ReadUvarint(b, idx) IN
    IF l.err = "nil" /\ l.idx + l.val <= Len(b) THEN l.idx + l.val ELSE -1

\* From idx on, the buffer is a sequence of whole keys, each with its whole
\* value.
RECURSIVE WellFormedFrom(_, _)
WellFormedFrom(b, idx) ==
    IF idx = Len(b) THEN TRUE
    ELSE LET k == SliceEnd(b, idx) IN
         IF k = -1 \/ k = Len(b) THEN FALSE
         ELSE LET v == SliceEnd(b, k) IN
              IF v = -1 THEN FALSE ELSE WellFormedFrom(b, v)

\* The errors of binary.ReadUvarint on a length prefix that is cut short or
\* too long: errors other than io.EOF, read here as malformed-indication.
MalformedErrors == {"UnexpectedEOF", "overflow"}

\* C16: a reader over a truncated or corrupt buffer ends with a
\* malformed-indication error: not with a panic, not with bytes from beyond
\* the buffer, not with a clean io.EOF.
C16_CorruptBufferIsReported ==
    (scenario = "raw" /\ ~WellFormedFrom(buf, 0) /\ rdr.last \notin {"none", "new", "nil"})
        => rdr.last \in MalformedErrors

\* ------------------------------------------------------------------------
\* Properties of the conversions
\* ------------------------------------------------------------------------

\* C18: a canonical text parsed with FromString and stringified with String
\* is the same text again.
C18_FromStringThenString ==
    (conv.goos # "none" /\ conv.from = "text" /\ conv.in \in CanonicalTexts
            /\ conv.ops = <<"FromString", "String">>)
        => conv.cur = conv.in

\* The canonical file URIs and local paths of a system.
CanonicalFileURIs(goos) ==
    IF goos = "windows" THEN WindowsFileURIs ELSE PosixFileURIs

CanonicalPaths(goos) == IF goos = "windows" THEN WindowsPaths ELSE PosixPaths

\* C19: a canonical file URI taken to its local path and back is the same
\* URI, and a canonical local path taken to its URI and back is the same
\* path.
C19_LocalFileRoundTrip ==
    /\ (conv.goos # "none" /\ conv.from = "uri"
            /\ conv.in \in CanonicalFileURIs(conv.goos)
            /\ conv.ops = <<"filePathOf", "uriOfFilePath">>)
        => (conv.err = "nil" /\ conv.cur = conv.in)
    /\ (conv.goos # "none" /\ conv.from = "text"
            /\ conv.in \in CanonicalPaths(conv.goos)
            /\ Len(conv.ops) >= 1 /\ conv.ops[1] = "uriOfFilePath")
        => /\ conv.err = "nil"
           /\ conv.ops = <<"uriOfFilePath", "filePathOf">> => conv.cur = conv.in

\* ------------------------------------------------------------------------
\* Properties of the pipeline's workers and of its shutdown
\* ------------------------------------------------------------------------

\* C21: requests is closed only once every scan worker has returned,
\* results only once every indicate worker has returned, and main2 returns
\* only once the repository goroutine has; each channel is closed at one
\* place of main2, so no worker that can still send finds its channel
\* closed.
C21_ShutdownOrdering ==
    scenario = "pipe" =>
        /\ closed.requests <=> pcMain \in {"indicatorWg.Wait", "<-repoCh", "returned"}
        /\ closed.results <=> pcMain \in {"<-repoCh", "returned"}
        /\ closed.requests => \A r \in Roots : scanners[r].pc = "done"
        /\ closed.results => \A w \in Workers : indWorkers[w].pc = "done"
        /\ pcMain = "returned" => pcRepo = "done"

\* C21: main2 has returned after both channels were closed, with every
\* file's result handled and no panic on the way.
C21_Witness ==
    /\ scenario = "pipe"
    /\ pcMain = "returned"
    /\ closed.requests /\ closed.results
    /\ ~hist.panicked
    /\ \A f \in Files : hist.persisted[f] = 1

\* C22: whenever the repository goroutine takes a result that carries an
\* Indication, that Indication is in the pool once the result is processed.
C22_ResultIndicationReleased ==
    [][(scenario = "pipe" /\ results # <<>> /\ results' = Tail(results)
            /\ ~Head(results).ind.nil)
        => CopiesIn(Head(results).ind, pool')
                = CopiesIn(Head(results).ind, pool) + 1]_vars

\* C23: every result an indicate worker sends or is about to send carries
\* either an Indication and no error, or an error and no Indication.
C23_ResultIsIndicationOrError ==
    scenario = "pipe" =>
        /\ \A i \in 1..Len(results) :
                results[i].ind.nil <=> results[i].err # "nil"
        /\ \A w \in Workers :
                indWorkers[w].pc \in {"send", "sendLast"}
                    => (indWorkers[w].res.ind.nil <=> indWorkers[w].res.err # "nil")

\* C24: in a run without interrupt and without a SetIndications failure,
\* whatever fails for single files, the context is not cancelled before
\* main2 returns and no goroutine panics.
C24_PerFileFailureIsLocal ==
    (scenario = "pipe" /\ ~hist.interrupted /\ ~hist.repoFailed)
        => (~hist.panicked /\ (ctxErr => pcMain = "returned"))

\* C30: in every state of the pipeline, whatever NewIndication may hand
\* out is a usable Indication: never the nil pointer.
C30_AcquireIsNeverNil ==
    scenario = "pipe" => \A got \in NewIndication(pool) : ~got.item.nil

\* ------------------------------------------------------------------------
\* Properties of the fan-out between the lanes of a Composite call
\* ------------------------------------------------------------------------

\* The bytes lane 1 (the spec's lane 0) has read from the source so far.
ReadBySource ==
    Slice(tee.lanes[1].rd.src, tee.lanes[1].start, tee.lanes[1].rd.pos)

\* The bytes lane i has taken out of its pipe so far.
Consumed(i) == tee.lanes[i].h \o tee.lanes[i].chunk

\* C25: the bytes a lane behind a pipe has consumed are a prefix of the
\* bytes the first lane has read from the source; the first lane is about
\* to read the next block only when every other lane has consumed all that
\* was read; and a pipe never holds more than one read block, nor does a
\* lane lag more than one block behind.
C25_FanOutBackpressure ==
    tee.pc # "none" =>
        /\ \A i \in 2..NLanes :
                /\ IsPrefix(Consumed(i), ReadBySource)
                /\ Len(tee.pipes[i].pending) <= BlockSize
                /\ Len(ReadBySource) - Len(Consumed(i)) <= BlockSize
                /\ Consumed(i) \o tee.pipes[i].pending = ReadBySource
                    \/ tee.pipes[i].pending = <<>>
        /\ tee.lanes[1].pc = "read"
                => \A i \in 2..NLanes : Consumed(i) = ReadBySource

\* C25: the first lane is about to read its second block while two lanes
\* behind pipes have each consumed the first block and not yet returned.
C25_Witness ==
    /\ tee.pc = "wg0.Wait"
    /\ NLanes = 3
    /\ tee.lanes[1].pc = "read"
    /\ Len(ReadBySource) = BlockSize
    /\ Len(ReadBySource) < Len(tee.lanes[1].rd.src)
    /\ \A i \in 2..NLanes : tee.lanes[i].pc # "done" /\ Consumed(i) = ReadBySource

\* ------------------------------------------------------------------------
\* Properties of the Resource table
\* ------------------------------------------------------------------------

\* C26: every step leaves Resource.Uri unique among the Resource rows,
\* removes no Resource row, and adds one only in a SetIndications for a
\* Uri that no row had; a SetIndications for a Uri that a row has adds
\* none.
C26_ResourceUriUnique ==
    [][scenario = "repo" =>
        /\ \A r1, r2 \in resources' : r1.Uri = r2.Uri => r1 = r2
        /\ resources \subseteq resources'
        /\ resources' # resources =>
                /\ repoOp'.op = "SetIndications"
                /\ repoOp'.resInserted
                /\ \A r \in resources : r.Uri # repoOp'.uri
                /\ \E row \in resources' \ resources :
                        /\ resources' = resources \cup {row}
                        /\ row.Uri = repoOp'.uri
        /\ (repoOp'.op = "SetIndications"
                /\ \E r \in resources : r.Uri = repoOp'.uri)
                    => resources' = resources /\ ~repoOp'.resInserted]_vars

\* C26: two Resource rows are stored and a SetIndications for the Uri of
\* one of them has just returned nil, having stored new Indication rows.
C26_Witness ==
    /\ scenario = "repo"
    /\ Cardinality(resources) = 2
    /\ repoOp.op = "SetIndications"
    /\ repoOp.err = <<>>
    /\ ~repoOp.resInserted
    /\ repoOp.inserted # {}
    /\ Cardinality({r \in resources : r.Uri = repoOp.uri}) = 1

\* ------------------------------------------------------------------------
\* Properties of the query compile
\* ------------------------------------------------------------------------

\* The query tree holds an Indication leaf without entries.
RECURSIVE HasEmptyLeaf(_)
HasEmptyLeaf(q) ==
    IF q.type = "Indication" THEN Each(q.ind) = <<>>
    ELSE IF q.type \in {"And", "Or"}
    THEN HasEmptyLeaf(q.args[1]) \/ HasEmptyLeaf(q.args[2])
    ELSE FALSE

\* The conjunction of (Key = ki AND Value = vi) over the entries es, which
\* are not none.
RECURSIVE Conjunction(_)
Conjunction(es) ==
    LET last == And(Eq("Key", es[Len(es)][1]), Eq("Value", es[Len(es)][2]))
    IN IF Len(es) = 1 THEN last
       ELSE And(Conjunction(SubSeq(es, 1, Len(es) - 1)), last)

\* The rewritten form of a tree of AND, OR and leaves with entries.
RECURSIVE Rewritten(_)
Rewritten(q) ==
    IF q.type = "Indication" THEN Conjunction(Each(q.ind))
    ELSE IF q.type = "And"
    THEN And(Rewritten(q.args[1]), Rewritten(q.args[2]))
    ELSE Or(Rewritten(q.args[1]), Rewritten(q.args[2]))

\* A rewritten expression read on one row of Indication joined to Resource.
RECURSIVE Holds(_, _)
Holds(e, jr) ==
    IF e.type = "Eq"
    THEN IF e.col = "Key" THEN jr[1].Key = e.val ELSE jr[1].Value = e.val
    ELSE IF e.type = "And" THEN Holds(e.args[1], jr) /\ Holds(e.args[2], jr)
    ELSE IF e.type = "Or" THEN Holds(e.args[1], jr) \/ Holds(e.args[2], jr)
    ELSE TRUE

\* The query URIs was called with is a tree of AND, OR and leaves with
\* entries.
CompilableQuery ==
    /\ repoOp.op = "URIs"
    /\ ~HasUnsupported(repoOp.ind)
    /\ ~HasEmptyLeaf(repoOp.ind)

\* The compile of such a tree ends without an error, with the frame it
\* began with alone on the stack and the rewritten form of the tree in the
\* first slot of that frame.
CompileRewrites ==
    CompilableQuery =>
        LET c == Compile(repoOp.ind) IN
        /\ c.Err = <<>>
        /\ c.stack = <<<<NilExpr, Rewritten(repoOp.ind), NilExpr>>>>

\* C27: the compile of a tree of AND, OR and leaves with entries leaves
\* the rewritten form of the tree (each leaf the conjunction of
\* Key = ki AND Value = vi over its entries, each AND and OR the same
\* operator over its two rewritten operands, in order), and URIs returns
\* the URIs of the joined rows the rewritten root holds of.
C27_CompileAndFilter ==
    CompilableQuery =>
        /\ CompileRewrites
        /\ repoOp.err = <<>>
        /\ repoOp.result =
                UrisOf({jr \in Joined(resources, indications) :
                            Holds(Rewritten(repoOp.ind), jr)})

\* No operand of the expression is nil.
RECURSIVE Filled(_)
Filled(e) ==
    IF e = NilExpr THEN FALSE
    ELSE IF e.type \in {"And", "Or"} THEN Filled(e.args[1]) /\ Filled(e.args[2])
    ELSE TRUE

\* The query is AND(empty, X) or AND(X, empty), X a tree of AND, OR and
\* leaves with entries: X, or no such query.
NoExpr == [type |-> "none"]

BesideEmptyLeaf(q) ==
    IF q.type # "And" THEN NoExpr
    ELSE LET l == q.args[1]
             r == q.args[2]
             empty(x) == x.type = "Indication" /\ Each(x.ind) = <<>>
             whole(x) == ~HasUnsupported(x) /\ ~HasEmptyLeaf(x)
         IN IF empty(l) /\ whole(r) THEN r
            ELSE IF empty(r) /\ whole(l) THEN l
            ELSE NoExpr

\* C28: URIs on AND(empty, X) or AND(X, empty) either returns the
\* empty-indication error or compiles to an expression with both operands
\* of every node filled that holds of the same rows as the rewritten X.
C28_EmptyLeafRejectedOrTrue ==
    (repoOp.op = "URIs" /\ BesideEmptyLeaf(repoOp.ind) # NoExpr) =>
        LET c == Compile(repoOp.ind)
            x == Rewritten(BesideEmptyLeaf(repoOp.ind))
        IN \/ /\ repoOp.err = <<"empty-indication">>
              /\ repoOp.result = EmptyBag
           \/ /\ repoOp.err = <<>>
              /\ Filled(c.stack[1][2])
              /\ \A jr \in Joined(resources, indications) :
                    Holds(c.stack[1][2], jr) <=> Holds(x, jr)

\* ------------------------------------------------------------------------
\* Properties of the Length indicator
\* ------------------------------------------------------------------------

\* A Length call has returned without error, having appended one entry:
\* ("length", n as 8 bytes big-endian), n the number of bytes between the
\* position the reader had and its end.
LengthCountsFromPosition ==
    LET n == Len(leaf.rd.src) - leaf.start
        es == Entries(leaf.out)
        m == Len(Entries(leaf.before))
    IN /\ Len(es) = m + 1
       /\ SubSeq(es, 1, m) = Entries(leaf.before)
       /\ es[m + 1] = <<lengthIndicatorKey,
                        [i \in 1..8 |-> IF i = 8 THEN n ELSE 0]>>

\* C29: whichever case of the type switch the reader takes, a Length call
\* that returns without error has appended exactly one entry, ("length",
\* n as 8 bytes big-endian), n the number of bytes between the reader's
\* position and its end, which is what HashAndLength counts (C15).
C29_LengthFromPosition ==
    (scenario = "leaf" /\ leaf.pc = "done" /\ leaf.err = "nil"
        /\ leaf.kind = "length")
            => LengthCountsFromPosition

\* ------------------------------------------------------------------------
\* Properties of Indicate calls that share one Composite
\* ------------------------------------------------------------------------

\* C31: every Indicate call begun on the Composite returns, whatever the
\* other callers do on the same Composite and wherever a child returns
\* before the end of its stream.
C31_IndicateReturns ==
    \A c \in Callers :
        (scenario = "fan" /\ fan.callers[c].pc \in {"send", "wg0.Wait", "wg1.Wait"})
            ~> (fan.callers[c].pc = "returned")

\* C31: on a Composite of three lanes a call in which a child behind a pipe
\* returned early has returned while another caller's call was under way.
C31_Witness ==
    /\ scenario = "fan"
    /\ fan.n = 3
    /\ \E c, d \in Callers :
        /\ c # d
        /\ fan.callers[c].pc = "returned"
        /\ fan.callers[c].early
        /\ fan.callers[d].pc \in {"send", "wg0.Wait", "wg1.Wait"}

================================================================
